---- MODULE Spec2Model ----
(***************************************************************************)
(* Tile binning pipeline of cuda_rasterizer/rasterizer_impl.cu:            *)
(* key generation, sort, range finding and the three orchestrators         *)
(* (forward, backward, integrate) over caller-owned buffers.               *)
(*                                                                         *)
(* Arrays are functions over 0..n-1, as the C arrays are.  A 64-bit key is *)
(* the record [tile, depth] of its high and low 32 bits.  A depth is a     *)
(* float counted in halves (1 is 0.5, 2 is 1.0); DepthBits is its IEEE-754 *)
(* single precision bit pattern.                                           *)
(***************************************************************************)
EXTENDS Integers, Sequences, FiniteSets, TLC

\* ------------------------------------------------------------------ bounds
MaxP == 2          \* primitives per scene
MaxDepth == 2      \* largest depth of a primitive, in halves
MaxPN == 2         \* sample points per integrate scene
MaxTileCount == 130    \* tile counts 1..MaxTileCount, and those around powers of two
MaxCount == 4      \* primitives and instances of the blocks whose layout is followed
MaxSide == 3       \* width and height of those blocks' image, in pixels

\* Tile edge in pixels (config.h); scaled down so that the range table of
\* width*height entries stays small.
BLOCK_X == 2
BLOCK_Y == 2

\* ----------------------------------------------------------------- helpers
Min(a, b) == IF a < b THEN a ELSE b
Max(a, b) == IF a > b THEN a ELSE b

\* C integer division (and the (int) cast of a float quotient) truncates
\* toward zero.
TruncDiv(a, b) == IF a >= 0 THEN a \div b ELSE -((-a) \div b)

\* n >> k on an unsigned integer below 2^31
Shr(n, k) == IF k >= 31 THEN 0 ELSE n \div (2 ^ k)

\* An array of n copies of v
Fill(n, v) == [i \in 0..(n - 1) |-> v]

\* floor(log2(h)) for h >= 1
RECURSIVE Log2(_)
Log2(h) == IF h <= 1 THEN 0 ELSE 1 + Log2(h \div 2)

\* *((uint32_t*)&depth): the bit pattern of the non-negative float h/2.
\* Biased exponent 126 + floor(log2 h), 23 mantissa bits below it.
DepthBits(h) ==
    IF h = 0 THEN 0
    ELSE LET k == Log2(h)
         IN  (126 + k) * (2 ^ 23) + (h - 2 ^ k) * (2 ^ (23 - k))

\* getHigherMsb: binary search for the bit above the highest set bit
RECURSIVE MsbLoop(_, _, _)
MsbLoop(n, msb, step) ==
    IF step > 1
    THEN LET s == step \div 2
         IN  IF Shr(n, msb) # 0 THEN MsbLoop(n, msb + s, s)
                                ELSE MsbLoop(n, msb - s, s)
    ELSE msb

\* Variant of getHigherMsb that starts the search at bit 8
getHigherMsb_LowStart(n) ==
    LET msb == MsbLoop(n, 8, 8)
    IN  IF Shr(n, msb) # 0 THEN msb + 1 ELSE msb

\* Variant of getHigherMsb without the step after the loop
getHigherMsb_LoopOnly(n) == MsbLoop(n, 16, 16)

getHigherMsb(n) ==
    LET msb == MsbLoop(n, 16, 16)
    IN  IF Shr(n, msb) # 0 THEN msb + 1 ELSE msb

\* dim3 tile_grid((width + BLOCK_X - 1) / BLOCK_X, (height + BLOCK_Y - 1) / BLOCK_Y, 1)
TileGrid(w, h) ==
    [x |-> (w + BLOCK_X - 1) \div BLOCK_X, y |-> (h + BLOCK_Y - 1) \div BLOCK_Y]

\* getRect (auxiliary.h): the tile rectangle [min, max) a footprint overlaps
getRect(p, max_radius, grid) ==
    [min |-> [x |-> Min(grid.x, Max(0, TruncDiv(p.x - max_radius, BLOCK_X))),
              y |-> Min(grid.y, Max(0, TruncDiv(p.y - max_radius, BLOCK_Y)))],
     max |-> [x |-> Min(grid.x, Max(0, TruncDiv(p.x + max_radius + BLOCK_X - 1, BLOCK_X))),
              y |-> Min(grid.y, Max(0, TruncDiv(p.y + max_radius + BLOCK_Y - 1, BLOCK_Y)))]]

RectArea(r) == (r.max.x - r.min.x) * (r.max.y - r.min.y)

\* ------------------------------------------------------- external stages
\* FORWARD::preprocess (forward.cu), at its interface: a primitive that is
\* culled (radius 0, or a footprint that overlaps no tile) gets radius 0 and
\* tile count 0 and nothing else written; a visible one gets its screen
\* position, depth, radius and the number of tiles of its rectangle.
Visible(pr, grid) ==
    pr.radius > 0 /\ RectArea(getRect(pr, pr.radius, grid)) > 0

preprocess(n, prims, grid, geom) ==
    [geom EXCEPT
       !.internal_radii = [i \in 0..(n - 1) |->
            IF Visible(prims[i], grid) THEN prims[i].radius ELSE 0],
       !.tiles_touched = [i \in 0..(n - 1) |->
            IF Visible(prims[i], grid)
            THEN RectArea(getRect(prims[i], prims[i].radius, grid)) ELSE 0],
       !.means2D = [i \in 0..(n - 1) |->
            IF Visible(prims[i], grid)
            THEN [x |-> prims[i].x, y |-> prims[i].y] ELSE geom.means2D[i]],
       !.depths = [i \in 0..(n - 1) |->
            IF Visible(prims[i], grid) THEN prims[i].depth ELSE geom.depths[i]]]

\* cub::DeviceScan::InclusiveSum over n counts: out[i] = in[0] + ... + in[i]
RECURSIVE SumTo(_, _)
SumTo(in, i) == IF i < 0 THEN 0 ELSE in[i] + SumTo(in, i - 1)

InclusiveSum(in, out, n) ==
    [i \in DOMAIN out |-> IF i < n THEN SumTo(in, i) ELSE out[i]]

\* The bits of a key that SortPairs(..., 0, end_bit) compares, end_bit >= 32:
\* the low 32 bits whole, and the low end_bit - 32 bits of the high word.
\* (a tile index is below 2^31 here, so 31 bits and more of it are all of it)
SortBits(key, end_bit) ==
    <<IF end_bit - 32 >= 31 THEN key.tile ELSE key.tile % (2 ^ (end_bit - 32)),
      key.depth>>

KeyLeq(a, b) == a[1] < b[1] \/ (a[1] = b[1] /\ a[2] <= b[2])

\* Stable insertion of pair e into the sorted sequence s: after every pair
\* whose compared bits are not greater.
RECURSIVE InsertPair(_, _, _)
InsertPair(s, e, end_bit) ==
    IF s = <<>> THEN <<e>>
    ELSE IF KeyLeq(SortBits(s[Len(s)].key, end_bit), SortBits(e.key, end_bit))
         THEN Append(s, e)
         ELSE Append(InsertPair(SubSeq(s, 1, Len(s) - 1), e, end_bit), s[Len(s)])

RECURSIVE SortedPrefix(_, _, _, _)
SortedPrefix(keys_in, values_in, n, end_bit) ==
    IF n = 0 THEN <<>>
    ELSE InsertPair(SortedPrefix(keys_in, values_in, n - 1, end_bit),
                    [key |-> keys_in[n - 1], val |-> values_in[n - 1]], end_bit)

\* cub::DeviceRadixSort::SortPairs(keys_in, keys_out, values_in, values_out,
\* num_items, begin_bit = 0, end_bit): stable, ascending on the compared bits.
SortPairs(keys_in, keys_out, values_in, values_out, n, end_bit) ==
    LET s == SortedPrefix(keys_in, values_in, n, end_bit)
    IN  [keys   |-> [i \in DOMAIN keys_out |->
                        IF i < n THEN s[i + 1].key ELSE keys_out[i]],
         values |-> [i \in DOMAIN values_out |->
                        IF i < n THEN s[i + 1].val ELSE values_out[i]]]

\* ---------------------------------------------------------------- kernels
\* Variant of DuplicateThread without the radius test
DuplicateThread_NoCull(idx, points_xy, depths, offsets, radii, grid, bin) ==
    LET off  == IF idx = 0 THEN 0 ELSE offsets[idx - 1]
        rect == getRect(points_xy[idx], radii[idx], grid)
        w    == rect.max.x - rect.min.x
        cnt  == IF w > 0 /\ rect.max.y > rect.min.y THEN RectArea(rect) ELSE 0
        KeyAt(j) == [tile  |-> (rect.min.y + (j \div w)) * grid.x + (rect.min.x + (j % w)),
                     depth |-> DepthBits(depths[idx])]
    IN  [bin EXCEPT
           !.point_list_keys_unsorted = [s \in DOMAIN @ |->
               IF s >= off /\ s < off + cnt THEN KeyAt(s - off) ELSE @[s]],
           !.point_list_unsorted = [s \in DOMAIN @ |->
               IF s >= off /\ s < off + cnt THEN idx ELSE @[s]]]

\* Variant of DuplicateThread whose tile index is x * grid.x + y
DuplicateThread_Transposed(idx, points_xy, depths, offsets, radii, grid, bin) ==
    IF radii[idx] > 0
    THEN LET off  == IF idx = 0 THEN 0 ELSE offsets[idx - 1]
             rect == getRect(points_xy[idx], radii[idx], grid)
             w    == rect.max.x - rect.min.x
             cnt  == IF w > 0 /\ rect.max.y > rect.min.y THEN RectArea(rect) ELSE 0
             KeyAt(j) == [tile  |-> (rect.min.x + (j % w)) * grid.x + (rect.min.y + (j \div w)),
                          depth |-> DepthBits(depths[idx])]
         IN  [bin EXCEPT
                !.point_list_keys_unsorted = [s \in DOMAIN @ |->
                    IF s >= off /\ s < off + cnt THEN KeyAt(s - off) ELSE @[s]],
                !.point_list_unsorted = [s \in DOMAIN @ |->
                    IF s >= off /\ s < off + cnt THEN idx ELSE @[s]]]
    ELSE bin

\* One thread of duplicateWithKeys: primitive idx writes one pair per tile of
\* its rectangle, row by row, from its exclusive offset on.
DuplicateThread(idx, points_xy, depths, offsets, radii, grid, bin) ==
    IF radii[idx] > 0
    THEN LET off  == IF idx = 0 THEN 0 ELSE offsets[idx - 1]
             rect == getRect(points_xy[idx], radii[idx], grid)
             w    == rect.max.x - rect.min.x
             cnt  == IF w > 0 /\ rect.max.y > rect.min.y THEN RectArea(rect) ELSE 0
             KeyAt(j) == [tile  |-> (rect.min.y + (j \div w)) * grid.x + (rect.min.x + (j % w)),
                          depth |-> DepthBits(depths[idx])]
         IN  [bin EXCEPT
                !.point_list_keys_unsorted = [s \in DOMAIN @ |->
                    IF s >= off /\ s < off + cnt THEN KeyAt(s - off) ELSE @[s]],
                !.point_list_unsorted = [s \in DOMAIN @ |->
                    IF s >= off /\ s < off + cnt THEN idx ELSE @[s]]]
    ELSE bin

\* duplicateWithKeys <<< >>>: the threads idx < P, whose writes go to
\* different slots
RECURSIVE DuplicateThreads(_, _, _, _, _, _, _)
DuplicateThreads(n, points_xy, depths, offsets, radii, grid, bin) ==
    IF n = 0 THEN bin
    ELSE DuplicateThread(n - 1, points_xy, depths, offsets, radii, grid,
             DuplicateThreads(n - 1, points_xy, depths, offsets, radii, grid, bin))

duplicateWithKeys(n, points_xy, depths, offsets, radii, grid, bin) ==
    DuplicateThreads(n, points_xy, depths, offsets, radii, grid, bin)

\* Variant of RangeThread that closes the previous tile's range one entry late
RangeThread_CloseLate(idx, L, keys, ranges) ==
    LET currtile == keys[idx].tile
        r1 == IF idx = 0
              THEN [ranges EXCEPT ![currtile].x = 0]
              ELSE LET prevtile == keys[idx - 1].tile
                   IN  IF currtile # prevtile
                       THEN [ranges EXCEPT ![prevtile].y = idx + 1, ![currtile].x = idx]
                       ELSE ranges
    IN  IF idx = L - 1 THEN [r1 EXCEPT ![currtile].y = L] ELSE r1

\* One thread of identifyTileRanges
RangeThread(idx, L, keys, ranges) ==
    LET currtile == keys[idx].tile
        r1 == IF idx = 0
              THEN [ranges EXCEPT ![currtile].x = 0]
              ELSE LET prevtile == keys[idx - 1].tile
                   IN  IF currtile # prevtile
                       THEN [ranges EXCEPT ![prevtile].y = idx, ![currtile].x = idx]
                       ELSE ranges
    IN  IF idx = L - 1 THEN [r1 EXCEPT ![currtile].y = L] ELSE r1

\* identifyTileRanges <<< >>>: the threads idx < L
RECURSIVE RangeThreads(_, _, _, _)
RangeThreads(n, L, keys, ranges) ==
    IF n = 0 THEN ranges
    ELSE RangeThread(n - 1, L, keys, RangeThreads(n - 1, L, keys, ranges))

identifyTileRanges(L, keys, ranges) == RangeThreads(L, L, keys, ranges)

\* ------------------------------------------------------------------ state
VARIABLES
    NUM_CHANNELS,   \* config.h: output channels of the build
    inp,            \* the arguments of the calls: P, width, height,
                    \* colors_precomp and what projection yields per primitive
    pc,             \* the statement the running call is at, or "idle"
    geomState,      \* GeometryState view of the geometry buffer
    binningState,   \* BinningState view of the binning buffer
    imgState,       \* ImageState view of the image buffer
    num_rendered,   \* host copy of point_offsets[P - 1], -1 before the copy
    log,            \* resize callbacks and device operations of the running
                    \* call, in the order issued
    outputs,        \* caller's output buffers the running call has written
    ret,            \* how the latest call ended
    last,           \* buffers and count of the latest completed forward
    pointState,         \* integrate: PointState view of the point buffer
    point_binningState, \* integrate: BinningState view of the point binning buffer
    num_integrated,     \* integrate: host copy of the point total, -1 before the copy
    call,               \* the latest host computation followed on its own:
                        \* what was computed, from what, and the result
    kernel              \* the threads of a key generation kernel in flight:
                        \* pairs written per thread, threads returned, and
                        \* the writes made, when its threads are followed one
                        \* write at a time

pointVars == <<pointState, point_binningState, num_integrated>>

vars == <<NUM_CHANNELS, inp, pc, geomState, binningState, imgState,
          num_rendered, log, outputs, ret, last, pointState,
          point_binningState, num_integrated, call, kernel>>

\* The word a block reads before the call writes it
Garbage == {0, 1}

\* Image sizes <<width, height>>: two by two tiles, and two by one
ImageSizes == {<<2 * BLOCK_X, 2 * BLOCK_Y>>, <<2 * BLOCK_X - 1, BLOCK_Y>>}

\* Screen position and radius of a visible primitive: inside one tile (each
\* of the four), or across the corner where the four meet
Footprints ==
    {[x |-> cx, y |-> cy, radius |-> 1] :
        cx \in {0, 2 * BLOCK_X - 1}, cy \in {0, 2 * BLOCK_Y - 1}}
    \cup {[x |-> BLOCK_X, y |-> BLOCK_Y, radius |-> 1]}

\* A primitive as projection leaves it.  A culled one (radius 0) has nothing
\* else that is ever read.
CulledPrim == [x |-> 0, y |-> 0, radius |-> 0, depth |-> 1]

Prims ==
    {[x |-> f.x, y |-> f.y, radius |-> f.radius, depth |-> d] :
        f \in Footprints, d \in 1..MaxDepth}
    \cup {CulledPrim}

\* NUM_CHANNELS and colors_precomp: RGB from spherical harmonics, and a
\* build with more channels without and with precomputed colours
Configs == {<<3, "nullptr">>, <<4, "nullptr">>, <<4, "given">>}

Scenes ==
    UNION { [P : {n}, width : {sz[1]}, height : {sz[2]},
             colors_precomp : {"nullptr", "given"},
             prims : [0..(n - 1) -> Prims],
             PN : {0}, pts : {<<>>}] : n \in 1..MaxP, sz \in ImageSizes }

tile_grid == TileGrid(inp.width, inp.height)
NumTiles == tile_grid.x * tile_grid.y
NumPixels == inp.width * inp.height

\* The word a read of array[i] yields: the element, or for an index outside
\* the array whatever lies at that address
ReadWord(array, i) == IF i \in DOMAIN array THEN {array[i]} ELSE Garbage

\* point_offsets + P - 1: the index of the total in the offsets of n counts
ReadbackIndex(n) == n - 1

\* GeometryState::fromChunk: the sub-buffers of a block whose words read g
GeometryState_fromChunk(n, g) ==
    [depths         |-> Fill(n, g),
     internal_radii |-> Fill(n, g),
     means2D        |-> Fill(n, [x |-> g, y |-> g]),
     tiles_touched  |-> Fill(n, g),
     point_offsets  |-> Fill(n, g)]

\* ImageState::fromChunk
ImageState_fromChunk(n, g) ==
    [ranges       |-> Fill(n, [x |-> g, y |-> g]),
     point_ranges |-> Fill(n, [x |-> g, y |-> g])]

\* BinningState::fromChunk
BinningState_fromChunk(n, g) ==
    [point_list               |-> Fill(n, g),
     point_list_unsorted      |-> Fill(n, g),
     point_list_keys          |-> Fill(n, [tile |-> g, depth |-> g]),
     point_list_keys_unsorted |-> Fill(n, [tile |-> g, depth |-> g])]

\* PointState::fromChunk
PointState_fromChunk(n, g) ==
    [depths        |-> Fill(n, g),
     points2D      |-> Fill(n, [x |-> g, y |-> g]),
     tiles_touched |-> Fill(n, g),
     point_offsets |-> Fill(n, g)]

NoRet == [st |-> "none", v |-> 0, fn |-> "none"]

NoKernel == [name |-> "none", next |-> <<>>, done |-> {}, writes |-> {}]

NoCall == [fn |-> "none", arg |-> 0, res |-> 0]

\* Everything but the arguments, before the first call
Start ==
    /\ pc = "idle"
    /\ kernel = NoKernel
    /\ call = NoCall
    /\ pointState = PointState_fromChunk(0, 0)
    /\ point_binningState = BinningState_fromChunk(0, 0)
    /\ num_integrated = -1
    /\ geomState = GeometryState_fromChunk(0, 0)
    /\ binningState = BinningState_fromChunk(0, 0)
    /\ imgState = ImageState_fromChunk(0, 0)
    /\ num_rendered = -1
    /\ log = <<>>
    /\ outputs = {}
    /\ ret = NoRet
    /\ last = [st |-> "none", geomState |-> GeometryState_fromChunk(0, 0),
               binningState |-> BinningState_fromChunk(0, 0),
               imgState |-> ImageState_fromChunk(0, 0), num_rendered |-> -1]

Init ==
    /\ inp \in Scenes
    /\ NUM_CHANNELS \in {3, 4}
    /\ <<NUM_CHANNELS, inp.colors_precomp>> \in Configs
    /\ Start

\* ---------------------------------------------------------------- forward
\* lines 297-312: the geometry and image buffers are requested and carved
FwdLayout ==
    /\ pc = "idle"
    /\ \E g \in Garbage :
          /\ geomState' = GeometryState_fromChunk(inp.P, g)
          /\ imgState' = ImageState_fromChunk(NumPixels, g)
    /\ binningState' = BinningState_fromChunk(0, 0)
    /\ num_rendered' = -1
    /\ log' = <<"geometryBuffer", "imageBuffer">>
    /\ outputs' = {}
    /\ ret' = NoRet
    /\ pc' = "fwd_check"
    /\ UNCHANGED <<NUM_CHANNELS, inp, call, kernel, pointVars, last>>

\* Variant of FwdCheck with the channel comparison inverted
FwdCheck_RgbOnly ==
    /\ pc = "fwd_check"
    /\ IF NUM_CHANNELS = 3 /\ inp.colors_precomp = "nullptr"
       THEN pc' = "idle" /\ ret' = [st |-> "threw", v |-> 0, fn |-> "forward"]
       ELSE pc' = "fwd_preprocess" /\ ret' = ret
    /\ UNCHANGED <<NUM_CHANNELS, inp, call, kernel, pointVars, geomState, binningState, imgState,
                   num_rendered, log, outputs, last>>

\* lines 314-317
FwdCheck ==
    /\ pc = "fwd_check"
    /\ IF NUM_CHANNELS # 3 /\ inp.colors_precomp = "nullptr"
       THEN pc' = "idle" /\ ret' = [st |-> "threw", v |-> 0, fn |-> "forward"]
       ELSE pc' = "fwd_preprocess" /\ ret' = ret
    /\ UNCHANGED <<NUM_CHANNELS, inp, call, kernel, pointVars, geomState, binningState, imgState,
                   num_rendered, log, outputs, last>>

\* lines 320-357
FwdPreprocess ==
    /\ pc = "fwd_preprocess"
    /\ geomState' = preprocess(inp.P, inp.prims, tile_grid, geomState)
    /\ log' = Append(log, "preprocess")
    /\ pc' = "fwd_scan"
    /\ UNCHANGED <<NUM_CHANNELS, inp, call, kernel, pointVars, binningState, imgState, num_rendered,
                   outputs, ret, last>>

\* line 361
FwdInclusiveSum ==
    /\ pc = "fwd_scan"
    /\ geomState' = [geomState EXCEPT !.point_offsets =
          InclusiveSum(geomState.tiles_touched, geomState.point_offsets, inp.P)]
    /\ log' = Append(log, "InclusiveSum")
    /\ pc' = "fwd_readback"
    /\ UNCHANGED <<NUM_CHANNELS, inp, call, kernel, pointVars, binningState, imgState, num_rendered,
                   outputs, ret, last>>

\* Variant of FwdMemcpy that copies the first offset instead of the last
FwdMemcpy_FirstOffset ==
    /\ pc = "fwd_readback"
    /\ num_rendered' = geomState.point_offsets[0]
    /\ log' = Append(log, "cudaMemcpy")
    /\ pc' = "fwd_binning"
    /\ UNCHANGED <<NUM_CHANNELS, inp, call, kernel, pointVars, geomState, binningState, imgState,
                   outputs, ret, last>>

\* lines 364-365
FwdMemcpy ==
    /\ pc = "fwd_readback"
    /\ num_rendered' \in ReadWord(geomState.point_offsets, ReadbackIndex(inp.P))
    /\ log' = Append(log, "cudaMemcpy")
    /\ pc' = "fwd_binning"
    /\ UNCHANGED <<NUM_CHANNELS, inp, call, kernel, pointVars, geomState, binningState, imgState,
                   outputs, ret, last>>

\* lines 367-369
FwdBinning ==
    /\ pc = "fwd_binning"
    /\ \E g \in Garbage : binningState' = BinningState_fromChunk(num_rendered, g)
    /\ log' = Append(log, "binningBuffer")
    /\ pc' = "fwd_duplicate"
    /\ UNCHANGED <<NUM_CHANNELS, inp, call, kernel, pointVars, geomState, imgState, num_rendered,
                   outputs, ret, last>>

\* lines 373-382
FwdDuplicate ==
    /\ pc = "fwd_duplicate"
    /\ binningState' = duplicateWithKeys(inp.P, geomState.means2D, geomState.depths,
          geomState.point_offsets, geomState.internal_radii, tile_grid, binningState)
    /\ log' = Append(log, "duplicateWithKeys")
    /\ pc' = "fwd_sort"
    /\ UNCHANGED <<NUM_CHANNELS, inp, call, kernel, pointVars, geomState, imgState, num_rendered,
                   outputs, ret, last>>

\* Variant of FwdSort that hands the sort the depth bits only
FwdSort_DepthBitsOnly ==
    /\ pc = "fwd_sort"
    /\ LET s == SortPairs(binningState.point_list_keys_unsorted,
                          binningState.point_list_keys,
                          binningState.point_list_unsorted,
                          binningState.point_list, num_rendered, 32)
       IN  binningState' = [binningState EXCEPT !.point_list_keys = s.keys,
                                                !.point_list = s.values]
    /\ log' = Append(log, "SortPairs")
    /\ pc' = "fwd_memset"
    /\ UNCHANGED <<NUM_CHANNELS, inp, call, kernel, pointVars, geomState, imgState, num_rendered,
                   outputs, ret, last>>

\* lines 384-392
FwdSort ==
    /\ pc = "fwd_sort"
    /\ LET bit == getHigherMsb(NumTiles)
           s   == SortPairs(binningState.point_list_keys_unsorted,
                            binningState.point_list_keys,
                            binningState.point_list_unsorted,
                            binningState.point_list, num_rendered, 32 + bit)
       IN  binningState' = [binningState EXCEPT !.point_list_keys = s.keys,
                                                !.point_list = s.values]
    /\ log' = Append(log, "SortPairs")
    /\ pc' = "fwd_memset"
    /\ UNCHANGED <<NUM_CHANNELS, inp, call, kernel, pointVars, geomState, imgState, num_rendered,
                   outputs, ret, last>>

\* Variant of ZeroRanges that stops one entry short
ZeroRanges_SkipLast(ranges, n) ==
    [t \in DOMAIN ranges |-> IF t < n - 1 THEN [x |-> 0, y |-> 0] ELSE ranges[t]]

\* cudaMemset(ranges, 0, n * sizeof(uint2))
ZeroRanges(ranges, n) ==
    [t \in DOMAIN ranges |-> IF t < n THEN [x |-> 0, y |-> 0] ELSE ranges[t]]

\* Variant of FwdMemset that zeroes the table only when there are instances
FwdMemset_OnlyIfRendered ==
    /\ pc = "fwd_memset"
    /\ imgState' = IF num_rendered > 0
                   THEN [imgState EXCEPT !.ranges = ZeroRanges(imgState.ranges, NumTiles)]
                   ELSE imgState
    /\ log' = Append(log, "cudaMemset")
    /\ pc' = "fwd_ranges"
    /\ UNCHANGED <<NUM_CHANNELS, inp, call, kernel, pointVars, geomState, binningState, num_rendered,
                   outputs, ret, last>>

\* line 394
FwdMemset ==
    /\ pc = "fwd_memset"
    /\ imgState' = [imgState EXCEPT !.ranges = ZeroRanges(imgState.ranges, NumTiles)]
    /\ log' = Append(log, "cudaMemset")
    /\ pc' = "fwd_ranges"
    /\ UNCHANGED <<NUM_CHANNELS, inp, call, kernel, pointVars, geomState, binningState, num_rendered,
                   outputs, ret, last>>

\* Variant of FwdIdentify that launches the kernel for an empty list too
FwdIdentify_Always ==
    /\ pc = "fwd_ranges"
    /\ imgState' = [imgState EXCEPT !.ranges =
           identifyTileRanges(Max(num_rendered, 0), binningState.point_list_keys,
                              imgState.ranges)]
    /\ log' = Append(log, "identifyTileRanges")
    /\ pc' = "fwd_render"
    /\ UNCHANGED <<NUM_CHANNELS, inp, call, kernel, pointVars, geomState, binningState, num_rendered,
                   outputs, ret, last>>

\* lines 397-402
FwdIdentify ==
    /\ pc = "fwd_ranges"
    /\ IF num_rendered > 0
       THEN /\ imgState' = [imgState EXCEPT !.ranges =
                   identifyTileRanges(num_rendered, binningState.point_list_keys,
                                      imgState.ranges)]
            /\ log' = Append(log, "identifyTileRanges")
       ELSE UNCHANGED <<imgState, log>>
    /\ pc' = "fwd_render"
    /\ UNCHANGED <<NUM_CHANNELS, inp, call, kernel, pointVars, geomState, binningState, num_rendered,
                   outputs, ret, last>>

\* lines 405-440: FORWARD::render fills the caller's images, then the
\* instance count is returned
FwdRender ==
    /\ pc = "fwd_render"
    /\ outputs' = outputs \cup {"out_color", "out_alpha"}
    /\ log' = Append(log, "render")
    /\ ret' = [st |-> "value", v |-> num_rendered, fn |-> "forward"]
    /\ last' = [st |-> "done", geomState |-> geomState,
                binningState |-> binningState, imgState |-> imgState,
                num_rendered |-> num_rendered]
    /\ pc' = "idle"
    /\ UNCHANGED <<NUM_CHANNELS, inp, call, kernel, pointVars, geomState, binningState, imgState,
                   num_rendered>>

Forward ==
    \/ FwdLayout \/ FwdCheck \/ FwdPreprocess \/ FwdInclusiveSum \/ FwdMemcpy
    \/ FwdBinning \/ FwdDuplicate \/ FwdSort \/ FwdMemset \/ FwdIdentify
    \/ FwdRender

\* --------------------------------------------------------------- backward
\* The caller hands backward the three buffers, P and R of a completed
\* forward call (anything else is outside its contract).
HoldsForward ==
    /\ last.st = "done"
    /\ geomState = last.geomState
    /\ binningState = last.binningState
    /\ imgState = last.imgState
    /\ num_rendered = last.num_rendered

\* Variant of BwdLayout that asks for the binning buffer anew, as forward does
BwdLayout_Recarve ==
    /\ pc = "idle"
    /\ HoldsForward
    /\ \E g \in Garbage : binningState' = BinningState_fromChunk(num_rendered, g)
    /\ log' = <<"binningBuffer">>
    /\ outputs' = {}
    /\ ret' = NoRet
    /\ pc' = "bwd_render"
    /\ UNCHANGED <<NUM_CHANNELS, inp, call, kernel, pointVars, geomState, imgState, num_rendered, last>>

\* lines 498-511: the three views are recomputed over the buffers passed in
BwdLayout ==
    /\ pc = "idle"
    /\ HoldsForward
    /\ log' = <<>>
    /\ outputs' = {}
    /\ ret' = NoRet
    /\ pc' = "bwd_render"
    /\ UNCHANGED <<NUM_CHANNELS, inp, call, kernel, pointVars, geomState, binningState, imgState,
                   num_rendered, last>>

\* lines 516-563: BACKWARD::render reads the ranges and the sorted list and
\* writes the per-primitive intermediate gradients
BwdRender ==
    /\ pc = "bwd_render"
    /\ outputs' = outputs \cup {"dL_dmean2D", "dL_dconic", "dL_dopacity", "dL_dcolor"}
    /\ log' = Append(log, "BACKWARD::render")
    /\ pc' = "bwd_preprocess"
    /\ UNCHANGED <<NUM_CHANNELS, inp, call, kernel, pointVars, geomState, binningState, imgState,
                   num_rendered, ret, last>>

\* lines 568-605: BACKWARD::preprocess writes the parameter gradients
BwdPreprocess ==
    /\ pc = "bwd_preprocess"
    /\ outputs' = outputs \cup {"dL_dmean3D", "dL_dcov3D", "dL_dsh", "dL_dscale", "dL_drot"}
    /\ log' = Append(log, "BACKWARD::preprocess")
    /\ ret' = [st |-> "void", v |-> 0, fn |-> "backward"]
    /\ pc' = "idle"
    /\ UNCHANGED <<NUM_CHANNELS, inp, call, kernel, pointVars, geomState, binningState, imgState,
                   num_rendered, last>>

Backward == BwdLayout \/ BwdRender \/ BwdPreprocess

\* -------------------------------------------------------------- integrate
\* FORWARD::preprocess_points (forward.cu), at its interface: a visible point
\* gets its screen position, its depth and tile count 1; a culled one gets
\* tile count 0 and nothing else written.
preprocess_points(n, pts, pstate) ==
    [pstate EXCEPT
       !.tiles_touched = [i \in 0..(n - 1) |-> IF pts[i].visible THEN 1 ELSE 0],
       !.points2D = [i \in 0..(n - 1) |->
            IF pts[i].visible THEN [x |-> pts[i].x, y |-> pts[i].y]
                              ELSE pstate.points2D[i]],
       !.depths = [i \in 0..(n - 1) |->
            IF pts[i].visible THEN pts[i].depth ELSE pstate.depths[i]]]

\* Variant of CreateThread that takes the containing tile as it is
CreateThread_Unclamped(idx, points_xy, depths, offsets, tiles_touched, grid, bin) ==
    IF tiles_touched[idx] > 0
    THEN LET off == IF idx = 0 THEN 0 ELSE offsets[idx - 1]
             p   == points_xy[idx]
             x   == TruncDiv(p.x, BLOCK_X)
             y   == TruncDiv(p.y, BLOCK_Y)
             key == [tile |-> y * grid.x + x, depth |-> DepthBits(depths[idx])]
         IN  [bin EXCEPT
                !.point_list_keys_unsorted = [s \in DOMAIN @ |->
                    IF s = off THEN key ELSE @[s]],
                !.point_list_unsorted = [s \in DOMAIN @ |->
                    IF s = off THEN idx ELSE @[s]]]
    ELSE bin

\* One thread of createWithKeys: a point with a tile count writes one pair
\* for the tile that contains it, clamped to the grid.
CreateThread(idx, points_xy, depths, offsets, tiles_touched, grid, bin) ==
    IF tiles_touched[idx] > 0
    THEN LET off == IF idx = 0 THEN 0 ELSE offsets[idx - 1]
             p   == points_xy[idx]
             x   == Min(grid.x - 1, Max(0, TruncDiv(p.x, BLOCK_X)))
             y   == Min(grid.y - 1, Max(0, TruncDiv(p.y, BLOCK_Y)))
             key == [tile |-> y * grid.x + x, depth |-> DepthBits(depths[idx])]
         IN  [bin EXCEPT
                !.point_list_keys_unsorted = [s \in DOMAIN @ |->
                    IF s = off THEN key ELSE @[s]],
                !.point_list_unsorted = [s \in DOMAIN @ |->
                    IF s = off THEN idx ELSE @[s]]]
    ELSE bin

RECURSIVE CreateThreads(_, _, _, _, _, _, _)
CreateThreads(n, points_xy, depths, offsets, tiles_touched, grid, bin) ==
    IF n = 0 THEN bin
    ELSE CreateThread(n - 1, points_xy, depths, offsets, tiles_touched, grid,
             CreateThreads(n - 1, points_xy, depths, offsets, tiles_touched, grid, bin))

\* createWithKeys <<< >>>: the threads idx < PN
createWithKeys(n, points_xy, depths, offsets, tiles_touched, grid, bin) ==
    CreateThreads(n, points_xy, depths, offsets, tiles_touched, grid, bin)

\* lines 653-668
IntLayout ==
    /\ pc = "idle"
    /\ \E g \in Garbage :
          /\ geomState' = GeometryState_fromChunk(inp.P, g)
          /\ imgState' = ImageState_fromChunk(NumPixels, g)
    /\ binningState' = BinningState_fromChunk(0, 0)
    /\ pointState' = PointState_fromChunk(0, 0)
    /\ point_binningState' = BinningState_fromChunk(0, 0)
    /\ num_rendered' = -1
    /\ num_integrated' = -1
    /\ log' = <<"geometryBuffer", "imageBuffer">>
    /\ outputs' = {}
    /\ ret' = NoRet
    /\ pc' = "int_check"
    /\ UNCHANGED <<NUM_CHANNELS, inp, call, kernel, last>>

\* lines 670-673
IntCheck ==
    /\ pc = "int_check"
    /\ IF NUM_CHANNELS # 3 /\ inp.colors_precomp = "nullptr"
       THEN pc' = "idle" /\ ret' = [st |-> "threw", v |-> 0, fn |-> "integrate"]
       ELSE pc' = "int_preprocess" /\ ret' = ret
    /\ UNCHANGED <<NUM_CHANNELS, inp, call, kernel, pointVars, geomState, binningState,
                   imgState, num_rendered, log, outputs, last>>

\* lines 676-715
IntPreprocess ==
    /\ pc = "int_preprocess"
    /\ geomState' = preprocess(inp.P, inp.prims, tile_grid, geomState)
    /\ log' = Append(log, "preprocess")
    /\ pc' = "int_scan"
    /\ UNCHANGED <<NUM_CHANNELS, inp, call, kernel, pointVars, binningState, imgState,
                   num_rendered, outputs, ret, last>>

\* line 721
IntInclusiveSum ==
    /\ pc = "int_scan"
    /\ geomState' = [geomState EXCEPT !.point_offsets =
          InclusiveSum(geomState.tiles_touched, geomState.point_offsets, inp.P)]
    /\ log' = Append(log, "InclusiveSum")
    /\ pc' = "int_readback"
    /\ UNCHANGED <<NUM_CHANNELS, inp, call, kernel, pointVars, binningState, imgState,
                   num_rendered, outputs, ret, last>>

\* lines 724-725
IntMemcpy ==
    /\ pc = "int_readback"
    /\ num_rendered' \in ReadWord(geomState.point_offsets, ReadbackIndex(inp.P))
    /\ log' = Append(log, "cudaMemcpy")
    /\ pc' = "int_binning"
    /\ UNCHANGED <<NUM_CHANNELS, inp, call, kernel, pointVars, geomState, binningState,
                   imgState, outputs, ret, last>>

\* lines 727-729
IntBinning ==
    /\ pc = "int_binning"
    /\ \E g \in Garbage : binningState' = BinningState_fromChunk(num_rendered, g)
    /\ log' = Append(log, "binningBuffer")
    /\ pc' = "int_duplicate"
    /\ UNCHANGED <<NUM_CHANNELS, inp, call, kernel, pointVars, geomState, imgState,
                   num_rendered, outputs, ret, last>>

\* lines 733-742
IntDuplicate ==
    /\ pc = "int_duplicate"
    /\ binningState' = duplicateWithKeys(inp.P, geomState.means2D, geomState.depths,
          geomState.point_offsets, geomState.internal_radii, tile_grid, binningState)
    /\ log' = Append(log, "duplicateWithKeys")
    /\ pc' = "int_sort"
    /\ UNCHANGED <<NUM_CHANNELS, inp, call, kernel, pointVars, geomState, imgState,
                   num_rendered, outputs, ret, last>>

\* lines 744-752
IntSort ==
    /\ pc = "int_sort"
    /\ LET bit == getHigherMsb(NumTiles)
           s   == SortPairs(binningState.point_list_keys_unsorted,
                            binningState.point_list_keys,
                            binningState.point_list_unsorted,
                            binningState.point_list, num_rendered, 32 + bit)
       IN  binningState' = [binningState EXCEPT !.point_list_keys = s.keys,
                                                !.point_list = s.values]
    /\ log' = Append(log, "SortPairs")
    /\ pc' = "int_memset"
    /\ UNCHANGED <<NUM_CHANNELS, inp, call, kernel, pointVars, geomState, imgState,
                   num_rendered, outputs, ret, last>>

\* line 754
IntMemset ==
    /\ pc = "int_memset"
    /\ imgState' = [imgState EXCEPT !.ranges = ZeroRanges(imgState.ranges, NumTiles)]
    /\ log' = Append(log, "cudaMemset")
    /\ pc' = "int_ranges"
    /\ UNCHANGED <<NUM_CHANNELS, inp, call, kernel, pointVars, geomState, binningState,
                   num_rendered, outputs, ret, last>>

\* lines 757-762
IntIdentify ==
    /\ pc = "int_ranges"
    /\ IF num_rendered > 0
       THEN /\ imgState' = [imgState EXCEPT !.ranges =
                   identifyTileRanges(num_rendered, binningState.point_list_keys,
                                      imgState.ranges)]
            /\ log' = Append(log, "identifyTileRanges")
       ELSE UNCHANGED <<imgState, log>>
    /\ pc' = "int_point_layout"
    /\ UNCHANGED <<NUM_CHANNELS, inp, call, kernel, pointVars, geomState, binningState,
                   num_rendered, outputs, ret, last>>

\* lines 766-768
IntPointLayout ==
    /\ pc = "int_point_layout"
    /\ \E g \in Garbage : pointState' = PointState_fromChunk(inp.PN, g)
    /\ log' = Append(log, "pointBuffer")
    /\ pc' = "int_point_preprocess"
    /\ UNCHANGED <<NUM_CHANNELS, inp, call, kernel, point_binningState, num_integrated,
                   geomState, binningState, imgState, num_rendered, outputs,
                   ret, last>>

\* lines 771-784
IntPreprocessPoints ==
    /\ pc = "int_point_preprocess"
    /\ pointState' = preprocess_points(inp.PN, inp.pts, pointState)
    /\ log' = Append(log, "preprocess_points")
    /\ pc' = "int_point_scan"
    /\ UNCHANGED <<NUM_CHANNELS, inp, call, kernel, point_binningState, num_integrated,
                   geomState, binningState, imgState, num_rendered, outputs,
                   ret, last>>

\* line 788
IntPointInclusiveSum ==
    /\ pc = "int_point_scan"
    /\ pointState' = [pointState EXCEPT !.point_offsets =
          InclusiveSum(pointState.tiles_touched, pointState.point_offsets, inp.PN)]
    /\ log' = Append(log, "InclusiveSum")
    /\ pc' = "int_point_readback"
    /\ UNCHANGED <<NUM_CHANNELS, inp, call, kernel, point_binningState, num_integrated,
                   geomState, binningState, imgState, num_rendered, outputs,
                   ret, last>>

\* lines 791-792
IntPointMemcpy ==
    /\ pc = "int_point_readback"
    /\ num_integrated' \in ReadWord(pointState.point_offsets, ReadbackIndex(inp.PN))
    /\ log' = Append(log, "cudaMemcpy")
    /\ pc' = "int_point_binning"
    /\ UNCHANGED <<NUM_CHANNELS, inp, call, kernel, pointState, point_binningState,
                   geomState, binningState, imgState, num_rendered, outputs,
                   ret, last>>

\* Variant of IntPointBinning that sizes the point binning buffer for PN
IntPointBinning_SizedByPN ==
    /\ pc = "int_point_binning"
    /\ \E g \in Garbage :
          point_binningState' = BinningState_fromChunk(inp.PN, g)
    /\ log' = Append(log, "point_binningBuffer")
    /\ pc' = "int_create"
    /\ UNCHANGED <<NUM_CHANNELS, inp, call, kernel, pointState, num_integrated, geomState,
                   binningState, imgState, num_rendered, outputs, ret, last>>

\* lines 794-796
IntPointBinning ==
    /\ pc = "int_point_binning"
    /\ \E g \in Garbage :
          point_binningState' = BinningState_fromChunk(num_integrated, g)
    /\ log' = Append(log, "point_binningBuffer")
    /\ pc' = "int_create"
    /\ UNCHANGED <<NUM_CHANNELS, inp, call, kernel, pointState, num_integrated, geomState,
                   binningState, imgState, num_rendered, outputs, ret, last>>

\* lines 810-819
IntCreate ==
    /\ pc = "int_create"
    /\ point_binningState' = createWithKeys(inp.PN, pointState.points2D,
          pointState.depths, pointState.point_offsets, pointState.tiles_touched,
          tile_grid, point_binningState)
    /\ log' = Append(log, "createWithKeys")
    /\ pc' = "int_point_sort"
    /\ UNCHANGED <<NUM_CHANNELS, inp, call, kernel, pointState, num_integrated, geomState,
                   binningState, imgState, num_rendered, outputs, ret, last>>

\* lines 821-828: bit is the value computed at line 744
IntPointSort ==
    /\ pc = "int_point_sort"
    /\ LET bit == getHigherMsb(NumTiles)
           s   == SortPairs(point_binningState.point_list_keys_unsorted,
                            point_binningState.point_list_keys,
                            point_binningState.point_list_unsorted,
                            point_binningState.point_list, num_integrated, 32 + bit)
       IN  point_binningState' = [point_binningState EXCEPT
                                     !.point_list_keys = s.keys,
                                     !.point_list = s.values]
    /\ log' = Append(log, "SortPairs")
    /\ pc' = "int_point_memset"
    /\ UNCHANGED <<NUM_CHANNELS, inp, call, kernel, pointState, num_integrated, geomState,
                   binningState, imgState, num_rendered, outputs, ret, last>>

\* Variant of IntPointMemset that zeroes the Gaussian table once more
IntPointMemset_Ranges ==
    /\ pc = "int_point_memset"
    /\ imgState' = [imgState EXCEPT !.ranges = ZeroRanges(imgState.ranges, NumTiles)]
    /\ log' = Append(log, "cudaMemset")
    /\ pc' = "int_point_ranges"
    /\ UNCHANGED <<NUM_CHANNELS, inp, call, kernel, pointVars, geomState, binningState,
                   num_rendered, outputs, ret, last>>

\* line 834
IntPointMemset ==
    /\ pc = "int_point_memset"
    /\ imgState' = [imgState EXCEPT !.point_ranges =
                       ZeroRanges(imgState.point_ranges, NumTiles)]
    /\ log' = Append(log, "cudaMemset")
    /\ pc' = "int_point_ranges"
    /\ UNCHANGED <<NUM_CHANNELS, inp, call, kernel, pointVars, geomState, binningState,
                   num_rendered, outputs, ret, last>>

\* lines 837-842
IntPointIdentify ==
    /\ pc = "int_point_ranges"
    /\ IF num_integrated > 0
       THEN /\ imgState' = [imgState EXCEPT !.point_ranges =
                   identifyTileRanges(num_integrated,
                                      point_binningState.point_list_keys,
                                      imgState.point_ranges)]
            /\ log' = Append(log, "identifyTileRanges")
       ELSE UNCHANGED <<imgState, log>>
    /\ pc' = "int_integrate"
    /\ UNCHANGED <<NUM_CHANNELS, inp, call, kernel, pointVars, geomState, binningState,
                   num_rendered, outputs, ret, last>>

\* Variant of IntIntegrate that returns the point total
IntIntegrate_ReturnsPoints ==
    /\ pc = "int_integrate"
    /\ outputs' = outputs \cup {"out_color", "out_alpha_integrated",
                                "out_color_integrated", "out_coordinate2d", "out_sdf"}
    /\ log' = Append(log, "integrate")
    /\ ret' = [st |-> "value", v |-> num_integrated, fn |-> "integrate"]
    /\ pc' = "idle"
    /\ UNCHANGED <<NUM_CHANNELS, inp, call, kernel, pointVars, geomState, binningState,
                   imgState, num_rendered, last>>

\* lines 849-888: FORWARD::integrate fills the caller's per-point outputs,
\* then the Gaussian instance count is returned
IntIntegrate ==
    /\ pc = "int_integrate"
    /\ outputs' = outputs \cup {"out_color", "out_alpha_integrated",
                                "out_color_integrated", "out_coordinate2d", "out_sdf"}
    /\ log' = Append(log, "integrate")
    /\ ret' = [st |-> "value", v |-> num_rendered, fn |-> "integrate"]
    /\ pc' = "idle"
    /\ UNCHANGED <<NUM_CHANNELS, inp, call, kernel, pointVars, geomState, binningState,
                   imgState, num_rendered, last>>

Integrate ==
    \/ IntLayout \/ IntCheck \/ IntPreprocess \/ IntInclusiveSum \/ IntMemcpy
    \/ IntBinning \/ IntDuplicate \/ IntSort \/ IntMemset \/ IntIdentify
    \/ IntPointLayout \/ IntPreprocessPoints \/ IntPointInclusiveSum
    \/ IntPointMemcpy \/ IntPointBinning \/ IntCreate \/ IntPointSort
    \/ IntPointMemset \/ IntPointIdentify \/ IntIntegrate

\* A sample point as point projection leaves it: left of the image in the
\* second tile row, or beyond its bottom right corner; a culled point has
\* nothing else that is ever read.
Points ==
    {[x |-> -BLOCK_X, y |-> 2 * BLOCK_Y - 1, depth |-> 2, visible |-> TRUE],
     [x |-> 2 * BLOCK_X + 1, y |-> 2 * BLOCK_Y + 1, depth |-> 1, visible |-> TRUE],
     [x |-> 0, y |-> 0, depth |-> 1, visible |-> FALSE]}

\* The primitives of the integrate scenes: culled, in the first tile, in the
\* last tile, and farther away across all four
IntegratePrims ==
    {CulledPrim,
     [x |-> 0, y |-> 0, radius |-> 1, depth |-> 1],
     [x |-> 2 * BLOCK_X - 1, y |-> 2 * BLOCK_Y - 1, radius |-> 1, depth |-> 1],
     [x |-> BLOCK_X, y |-> BLOCK_Y, radius |-> 1, depth |-> 2]}

\* Scenes of the integrate calls: two by two tiles, one to MaxPN sample
\* points, no precomputed colours
IntegrateScenes ==
    UNION { [P : {n}, width : {2 * BLOCK_X}, height : {2 * BLOCK_Y},
             colors_precomp : {"nullptr"},
             prims : [0..(n - 1) -> IntegratePrims],
             PN : {m}, pts : [0..(m - 1) -> Points]] :
            n \in 1..MaxP, m \in 1..MaxPN }

InitIntegrate ==
    /\ NUM_CHANNELS \in {3, 4}
    /\ inp \in IntegrateScenes
    /\ Start

NextIntegrate == Forward \/ Integrate

SpecIntegrate == InitIntegrate /\ [][NextIntegrate]_vars

\* Scenes of the calls whose range tables are followed: images of one pixel,
\* of two tiles by one and of two tiles by two, one sample point
TableSizes == {<<1, 1>>, <<2 * BLOCK_X - 1, BLOCK_Y>>, <<2 * BLOCK_X, 2 * BLOCK_Y>>}

TableScenes ==
    UNION { [P : {n}, width : {sz[1]}, height : {sz[2]},
             colors_precomp : {"nullptr"},
             prims : [0..(n - 1) -> IntegratePrims],
             PN : {1}, pts : [0..0 -> Points]] :
            n \in 1..MaxP, sz \in TableSizes }

InitTables ==
    /\ NUM_CHANNELS = 3
    /\ inp \in TableScenes
    /\ Start

SpecTables == InitTables /\ [][NextIntegrate]_vars

\* Scenes of the calls whose reads of the offsets are followed: none to MaxP
\* primitives, no sample point or one
OffsetScenes ==
    UNION { [P : {n}, width : {2 * BLOCK_X}, height : {2 * BLOCK_Y},
             colors_precomp : {"nullptr"},
             prims : [0..(n - 1) -> IntegratePrims],
             PN : {m}, pts : [0..(m - 1) -> Points]] :
            n \in 0..MaxP, m \in {0, 1} }

InitOffsets ==
    /\ NUM_CHANNELS = 3
    /\ inp \in OffsetScenes
    /\ Start

SpecOffsets == InitOffsets /\ [][NextIntegrate]_vars

Next == Forward \/ Backward

Spec == Init /\ [][Next]_vars

\* -------------------------------------------------------- device failures
\* CHECK_CUDA(A, debug) (auxiliary.h) around a device operation A: whether
\* the call is aborted (an exception thrown) once A has run
CHECK_CUDA(failed, debug) == failed

Op(next, fn) == [next |-> next, fn |-> fn]

\* The statements wrapped in CHECK_CUDA, each with the statement that follows
\* it and the orchestrator it belongs to
DeviceOps ==
    ("fwd_preprocess" :> Op("fwd_scan", "forward"))
      @@ ("fwd_scan" :> Op("fwd_readback", "forward"))
      @@ ("fwd_readback" :> Op("fwd_binning", "forward"))
      @@ ("fwd_duplicate" :> Op("fwd_sort", "forward"))
      @@ ("fwd_sort" :> Op("fwd_memset", "forward"))
      @@ ("fwd_memset" :> Op("fwd_ranges", "forward"))
      @@ ("fwd_ranges" :> Op("fwd_render", "forward"))
      @@ ("fwd_render" :> Op("return", "forward"))
      @@ ("bwd_render" :> Op("bwd_preprocess", "backward"))
      @@ ("bwd_preprocess" :> Op("return", "backward"))
      @@ ("int_preprocess" :> Op("int_scan", "integrate"))
      @@ ("int_scan" :> Op("int_readback", "integrate"))
      @@ ("int_readback" :> Op("int_binning", "integrate"))
      @@ ("int_duplicate" :> Op("int_sort", "integrate"))
      @@ ("int_sort" :> Op("int_memset", "integrate"))
      @@ ("int_memset" :> Op("int_ranges", "integrate"))
      @@ ("int_ranges" :> Op("int_point_layout", "integrate"))
      @@ ("int_point_preprocess" :> Op("int_point_scan", "integrate"))
      @@ ("int_point_scan" :> Op("int_point_readback", "integrate"))
      @@ ("int_point_readback" :> Op("int_point_binning", "integrate"))
      @@ ("int_create" :> Op("int_point_sort", "integrate"))
      @@ ("int_point_sort" :> Op("int_point_memset", "integrate"))
      @@ ("int_point_memset" :> Op("int_point_ranges", "integrate"))
      @@ ("int_point_ranges" :> Op("int_integrate", "integrate"))
      @@ ("int_integrate" :> Op("return", "integrate"))

\* The Range Finder kernels are launched only for a non-empty list
Launched ==
    /\ pc \in {"fwd_ranges", "int_ranges"} => num_rendered > 0
    /\ pc = "int_point_ranges" => num_integrated > 0

\* The device operation at pc fails, having written nothing.  If the check
\* that wraps it throws, the call ends there; if not, the call goes on with
\* the next statement.
FaultStep(throws) ==
    /\ pc \in DOMAIN DeviceOps
    /\ Launched
    /\ log' = Append(log, "cudaError")
    /\ IF throws
       THEN /\ pc' = "idle"
            /\ ret' = [st |-> "threw", v |-> 0, fn |-> DeviceOps[pc].fn]
       ELSE IF DeviceOps[pc].next = "return"
            THEN /\ pc' = "idle"
                 /\ ret' = [st |-> IF DeviceOps[pc].fn = "backward"
                                   THEN "void" ELSE "value",
                            v |-> num_rendered, fn |-> DeviceOps[pc].fn]
            ELSE /\ pc' = DeviceOps[pc].next
                 /\ ret' = ret
    /\ UNCHANGED <<NUM_CHANNELS, inp, call, kernel, pointVars, geomState, binningState,
                   imgState, num_rendered, outputs, last>>

\* Variant of DeviceFault in which the cudaMemset calls are not wrapped
DeviceFault_MemsetUnchecked ==
    FaultStep(/\ pc \notin {"fwd_memset", "int_memset", "int_point_memset"}
              /\ CHECK_CUDA(TRUE, inp.debug))

\* A device operation fails: every one of them is the first argument of a
\* CHECK_CUDA, or a kernel launch directly followed by one
DeviceFault == FaultStep(CHECK_CUDA(TRUE, inp.debug))

\* Scenes of the calls with failing devices: two by two tiles, primitives
\* culled or across all four tiles, one sample point, both values of debug
FaultScenes ==
    UNION { [P : {n}, width : {2 * BLOCK_X}, height : {2 * BLOCK_Y},
             colors_precomp : {"nullptr"},
             prims : [0..(n - 1) ->
                        {CulledPrim,
                         [x |-> BLOCK_X, y |-> BLOCK_Y, radius |-> 1, depth |-> 1]}],
             PN : {1}, pts : [0..0 -> Points],
             debug : BOOLEAN] : n \in 1..MaxP }

InitFaults ==
    /\ NUM_CHANNELS = 3
    /\ inp \in FaultScenes
    /\ Start

NextFaults == Forward \/ Backward \/ Integrate \/ DeviceFault

SpecFaults == InitFaults /\ [][NextFaults]_vars

\* --------------------------------------------- key generation, by thread
\* The kernels of the key generators with their threads followed one write at
\* a time: a step is one iteration of a thread's inner loop (lines 102-108,
\* 139-143), or a thread's return.

\* <<< >>> of duplicateWithKeys (lines 373-381, 733-741) or createWithKeys
\* (lines 810-818): n threads start
Launch(at, name, n) ==
    /\ pc = at
    /\ kernel' = [name |-> name, next |-> [i \in 0..(n - 1) |-> 0],
                  done |-> {}, writes |-> {}]
    /\ pc' = at \o "_threads"
    /\ UNCHANGED <<NUM_CHANNELS, inp, call, pointVars, geomState, binningState,
                   imgState, num_rendered, log, outputs, ret, last>>

\* The kernel has completed when all its threads have returned
Join(at, to) ==
    /\ pc = at \o "_threads"
    /\ kernel.done = DOMAIN kernel.next
    /\ log' = Append(log, kernel.name)
    /\ pc' = to
    /\ UNCHANGED <<NUM_CHANNELS, inp, call, kernel, pointVars, geomState,
                   binningState, imgState, num_rendered, outputs, ret, last>>

\* The j-th write of a thread, at slot s, and the thread's return
Written(idx, s) ==
    [kernel EXCEPT !.next[idx] = @ + 1,
                   !.writes = @ \cup {[slot |-> s, idx |-> idx, j |-> kernel.next[idx]]}]

Returns(idx) == [kernel EXCEPT !.done = @ \cup {idx}]

\* Variant of DupWrite that starts at the primitive's inclusive offset
DupWrite_InclusiveOffset(at, idx) ==
    /\ pc = at \o "_threads"
    /\ idx \in DOMAIN kernel.next \ kernel.done
    /\ LET radii == geomState.internal_radii
           off   == geomState.point_offsets[idx]
           rect  == getRect(geomState.means2D[idx], radii[idx], tile_grid)
           w     == rect.max.x - rect.min.x
           cnt   == IF radii[idx] > 0 /\ w > 0 /\ rect.max.y > rect.min.y
                    THEN RectArea(rect) ELSE 0
           j     == kernel.next[idx]
           key   == [tile  |-> (rect.min.y + (j \div w)) * tile_grid.x
                                 + (rect.min.x + (j % w)),
                     depth |-> DepthBits(geomState.depths[idx])]
       IN  IF j < cnt
           THEN /\ binningState' = [binningState EXCEPT
                      !.point_list_keys_unsorted = [s \in DOMAIN @ |->
                          IF s = off + j THEN key ELSE @[s]],
                      !.point_list_unsorted = [s \in DOMAIN @ |->
                          IF s = off + j THEN idx ELSE @[s]]]
                /\ kernel' = Written(idx, off + j)
           ELSE /\ binningState' = binningState
                /\ kernel' = Returns(idx)
    /\ UNCHANGED <<NUM_CHANNELS, inp, call, pointVars, geomState, imgState,
                   num_rendered, log, outputs, ret, pc, last>>

\* lines 85-109: thread idx of duplicateWithKeys writes its next pair, row by
\* row over its rectangle from its exclusive offset on, or returns
DupWrite(at, idx) ==
    /\ pc = at \o "_threads"
    /\ idx \in DOMAIN kernel.next \ kernel.done
    /\ LET radii == geomState.internal_radii
           off   == IF idx = 0 THEN 0 ELSE geomState.point_offsets[idx - 1]
           rect  == getRect(geomState.means2D[idx], radii[idx], tile_grid)
           w     == rect.max.x - rect.min.x
           cnt   == IF radii[idx] > 0 /\ w > 0 /\ rect.max.y > rect.min.y
                    THEN RectArea(rect) ELSE 0
           j     == kernel.next[idx]
           key   == [tile  |-> (rect.min.y + (j \div w)) * tile_grid.x
                                 + (rect.min.x + (j % w)),
                     depth |-> DepthBits(geomState.depths[idx])]
       IN  IF j < cnt
           THEN /\ binningState' = [binningState EXCEPT
                      !.point_list_keys_unsorted = [s \in DOMAIN @ |->
                          IF s = off + j THEN key ELSE @[s]],
                      !.point_list_unsorted = [s \in DOMAIN @ |->
                          IF s = off + j THEN idx ELSE @[s]]]
                /\ kernel' = Written(idx, off + j)
           ELSE /\ binningState' = binningState
                /\ kernel' = Returns(idx)
    /\ UNCHANGED <<NUM_CHANNELS, inp, call, pointVars, geomState, imgState,
                   num_rendered, log, outputs, ret, pc, last>>

\* forward with the threads of duplicateWithKeys interleaved
FwdDuplicateThreads ==
    \/ Launch("fwd_duplicate", "duplicateWithKeys", inp.P)
    \/ \E idx \in 0..(inp.P - 1) : DupWrite("fwd_duplicate", idx)
    \/ Join("fwd_duplicate", "fwd_sort")

\* Scenes of the calls whose threads are followed: two by two tiles,
\* primitives culled, in the first tile or across all four
ThreadPrims ==
    {CulledPrim,
     [x |-> 0, y |-> 0, radius |-> 1, depth |-> 1],
     [x |-> BLOCK_X, y |-> BLOCK_Y, radius |-> 1, depth |-> 2]}

ThreadScenes ==
    UNION { [P : {n}, width : {2 * BLOCK_X}, height : {2 * BLOCK_Y},
             colors_precomp : {"nullptr"},
             prims : [0..(n - 1) -> ThreadPrims],
             PN : {0}, pts : {<<>>}] : n \in 1..MaxP }

InitThreads ==
    /\ NUM_CHANNELS = 3
    /\ inp \in ThreadScenes
    /\ Start

NextThreads ==
    \/ FwdLayout \/ FwdCheck \/ FwdPreprocess \/ FwdInclusiveSum \/ FwdMemcpy
    \/ FwdBinning \/ FwdDuplicateThreads \/ FwdSort \/ FwdMemset
    \/ FwdIdentify \/ FwdRender

SpecThreads == InitThreads /\ [][NextThreads]_vars

\* ------------------------------------------------- range finder, by thread
\* Variant of RangeWrites in which every thread closes its tile's range
RangeWrites_EveryThreadCloses(idx, L, keys) ==
    LET currtile == keys[idx].tile
    IN  (IF idx = 0
         THEN <<[t |-> currtile, f |-> "x", v |-> 0]>>
         ELSE IF currtile # keys[idx - 1].tile
              THEN <<[t |-> currtile, f |-> "x", v |-> idx]>>
              ELSE <<>>)
        \o <<[t |-> currtile, f |-> "y", v |-> idx + 1]>>

\* lines 158-172: the writes of thread idx of identifyTileRanges, in program
\* order; the keys it reads are not written by the kernel
RangeWrites(idx, L, keys) ==
    LET currtile == keys[idx].tile
    IN  (IF idx = 0
         THEN <<[t |-> currtile, f |-> "x", v |-> 0]>>
         ELSE IF currtile # keys[idx - 1].tile
              THEN <<[t |-> keys[idx - 1].tile, f |-> "y", v |-> idx],
                     [t |-> currtile, f |-> "x", v |-> idx]>>
              ELSE <<>>)
        \o (IF idx = L - 1
            THEN <<[t |-> currtile, f |-> "y", v |-> L]>>
            ELSE <<>>)

\* Thread idx of identifyTileRanges does its next write to the range table,
\* and returns after its last one
RangeWrite(at, idx) ==
    /\ pc = at \o "_threads"
    /\ idx \in DOMAIN kernel.next \ kernel.done
    /\ LET ws == RangeWrites(idx, num_rendered, binningState.point_list_keys)
           j  == kernel.next[idx]
       IN  IF j < Len(ws)
           THEN /\ imgState' = [imgState EXCEPT
                      !.ranges[ws[j + 1].t][ws[j + 1].f] = ws[j + 1].v]
                /\ kernel' = [Written(idx, <<ws[j + 1].t, ws[j + 1].f>>) EXCEPT
                      !.done = IF j + 1 = Len(ws) THEN @ \cup {idx} ELSE @]
           ELSE /\ imgState' = imgState
                /\ kernel' = Returns(idx)
    /\ UNCHANGED <<NUM_CHANNELS, inp, call, pointVars, geomState, binningState,
                   num_rendered, log, outputs, ret, pc, last>>

\* lines 397-402 with the threads of identifyTileRanges interleaved
FwdIdentifyThreads ==
    \/ /\ num_rendered > 0
       /\ Launch("fwd_ranges", "identifyTileRanges", num_rendered)
    \/ /\ pc = "fwd_ranges"
       /\ num_rendered = 0
       /\ pc' = "fwd_render"
       /\ UNCHANGED <<NUM_CHANNELS, inp, call, kernel, pointVars, geomState,
                      binningState, imgState, num_rendered, log, outputs, ret,
                      last>>
    \/ \E idx \in 0..(num_rendered - 1) : RangeWrite("fwd_ranges", idx)
    \/ Join("fwd_ranges", "fwd_render")

NextRangeThreads ==
    \/ FwdLayout \/ FwdCheck \/ FwdPreprocess \/ FwdInclusiveSum \/ FwdMemcpy
    \/ FwdBinning \/ FwdDuplicate \/ FwdSort \/ FwdMemset
    \/ FwdIdentifyThreads \/ FwdRender

SpecRangeThreads == InitThreads /\ [][NextRangeThreads]_vars

\* Variant of CreateWrite that writes a point's pair at the point's index
CreateWrite_AtIndex(at, idx) ==
    /\ pc = at \o "_threads"
    /\ idx \in DOMAIN kernel.next \ kernel.done
    /\ LET off == idx
           p   == pointState.points2D[idx]
           x   == Min(tile_grid.x - 1, Max(0, TruncDiv(p.x, BLOCK_X)))
           y   == Min(tile_grid.y - 1, Max(0, TruncDiv(p.y, BLOCK_Y)))
           key == [tile |-> y * tile_grid.x + x,
                   depth |-> DepthBits(pointState.depths[idx])]
       IN  IF pointState.tiles_touched[idx] > 0 /\ kernel.next[idx] = 0
           THEN /\ point_binningState' = [point_binningState EXCEPT
                      !.point_list_keys_unsorted = [s \in DOMAIN @ |->
                          IF s = off THEN key ELSE @[s]],
                      !.point_list_unsorted = [s \in DOMAIN @ |->
                          IF s = off THEN idx ELSE @[s]]]
                /\ kernel' = Written(idx, off)
           ELSE /\ point_binningState' = point_binningState
                /\ kernel' = Returns(idx)
    /\ UNCHANGED <<NUM_CHANNELS, inp, call, pointState, num_integrated, geomState,
                   binningState, imgState, num_rendered, log, outputs, ret,
                   pc, last>>

\* Variant of CreateWrite without the clamp to the grid
CreateWrite_Unclamped(at, idx) ==
    /\ pc = at \o "_threads"
    /\ idx \in DOMAIN kernel.next \ kernel.done
    /\ LET off == IF idx = 0 THEN 0 ELSE pointState.point_offsets[idx - 1]
           p   == pointState.points2D[idx]
           x   == TruncDiv(p.x, BLOCK_X)
           y   == TruncDiv(p.y, BLOCK_Y)
           key == [tile |-> y * tile_grid.x + x,
                   depth |-> DepthBits(pointState.depths[idx])]
       IN  IF pointState.tiles_touched[idx] > 0 /\ kernel.next[idx] = 0
           THEN /\ point_binningState' = [point_binningState EXCEPT
                      !.point_list_keys_unsorted = [s \in DOMAIN @ |->
                          IF s = off THEN key ELSE @[s]],
                      !.point_list_unsorted = [s \in DOMAIN @ |->
                          IF s = off THEN idx ELSE @[s]]]
                /\ kernel' = Written(idx, off)
           ELSE /\ point_binningState' = point_binningState
                /\ kernel' = Returns(idx)
    /\ UNCHANGED <<NUM_CHANNELS, inp, call, pointState, num_integrated, geomState,
                   binningState, imgState, num_rendered, log, outputs, ret,
                   pc, last>>

\* lines 129-144: thread idx of createWithKeys writes its one pair at its
\* exclusive offset, or returns
CreateWrite(at, idx) ==
    /\ pc = at \o "_threads"
    /\ idx \in DOMAIN kernel.next \ kernel.done
    /\ LET off == IF idx = 0 THEN 0 ELSE pointState.point_offsets[idx - 1]
           p   == pointState.points2D[idx]
           x   == Min(tile_grid.x - 1, Max(0, TruncDiv(p.x, BLOCK_X)))
           y   == Min(tile_grid.y - 1, Max(0, TruncDiv(p.y, BLOCK_Y)))
           key == [tile |-> y * tile_grid.x + x,
                   depth |-> DepthBits(pointState.depths[idx])]
       IN  IF pointState.tiles_touched[idx] > 0 /\ kernel.next[idx] = 0
           THEN /\ point_binningState' = [point_binningState EXCEPT
                      !.point_list_keys_unsorted = [s \in DOMAIN @ |->
                          IF s = off THEN key ELSE @[s]],
                      !.point_list_unsorted = [s \in DOMAIN @ |->
                          IF s = off THEN idx ELSE @[s]]]
                /\ kernel' = Written(idx, off)
           ELSE /\ point_binningState' = point_binningState
                /\ kernel' = Returns(idx)
    /\ UNCHANGED <<NUM_CHANNELS, inp, call, pointState, num_integrated, geomState,
                   binningState, imgState, num_rendered, log, outputs, ret,
                   pc, last>>

\* integrate with the threads of both key generators interleaved
IntDuplicateThreads ==
    \/ Launch("int_duplicate", "duplicateWithKeys", inp.P)
    \/ \E idx \in 0..(inp.P - 1) : DupWrite("int_duplicate", idx)
    \/ Join("int_duplicate", "int_sort")

IntCreateThreads ==
    \/ Launch("int_create", "createWithKeys", inp.PN)
    \/ \E idx \in 0..(inp.PN - 1) : CreateWrite("int_create", idx)
    \/ Join("int_create", "int_point_sort")

ThreadIntegrateScenes ==
    UNION { [P : {n}, width : {2 * BLOCK_X}, height : {2 * BLOCK_Y},
             colors_precomp : {"nullptr"},
             prims : [0..(n - 1) -> ThreadPrims],
             PN : {m}, pts : [0..(m - 1) -> Points]] :
            n \in 1..MaxP, m \in 1..MaxPN }

InitIntegrateThreads ==
    /\ NUM_CHANNELS = 3
    /\ inp \in ThreadIntegrateScenes
    /\ Start

NextIntegrateThreads ==
    \/ IntLayout \/ IntCheck \/ IntPreprocess \/ IntInclusiveSum \/ IntMemcpy
    \/ IntBinning \/ IntDuplicateThreads \/ IntSort \/ IntMemset \/ IntIdentify
    \/ IntPointLayout \/ IntPreprocessPoints \/ IntPointInclusiveSum
    \/ IntPointMemcpy \/ IntPointBinning \/ IntCreateThreads \/ IntPointSort
    \/ IntPointMemset \/ IntPointIdentify \/ IntIntegrate

SpecIntegrateThreads == InitIntegrateThreads /\ [][NextIntegrateThreads]_vars

\* ------------------------------------------------- host computations
\* Tile counts tile_grid.x * tile_grid.y: the small ones, and the ones next
\* to a power of two up to 2^30
TileCounts ==
    (1..MaxTileCount) \cup {2 ^ k + d : k \in 8..30, d \in {-1, 0, 1}}

\* lines 384-392, 744-752, 823-828: int bit = getHigherMsb(tile_grid.x *
\* tile_grid.y), and 32 + bit is the end bit handed to SortPairs
SortEndBit ==
    /\ pc = "idle"
    /\ \E n \in TileCounts :
          call' = [fn |-> "end_bit", arg |-> n, res |-> 32 + getHigherMsb(n)]
    /\ UNCHANGED <<NUM_CHANNELS, inp, kernel, pc, pointVars, geomState,
                   binningState, imgState, num_rendered, log, outputs, ret, last>>

InitHost ==
    /\ NUM_CHANNELS = 3
    /\ inp = [P |-> 1, width |-> BLOCK_X, height |-> BLOCK_Y,
              colors_precomp |-> "nullptr", prims |-> Fill(1, CulledPrim),
              PN |-> 0, pts |-> <<>>]
    /\ Start

NextHost == SortEndBit

SpecHost == InitHost /\ [][NextHost]_vars

\* ------------------------------------------------------------ block layout
\* obtain(chunk, ptr, count, alignment) (rasterizer_impl.h): ptr is chunk
\* rounded up to the alignment, and chunk moves past count elements
AlignUp(chunk, alignment) == ((chunk + alignment - 1) \div alignment) * alignment

obtain(chunk, count, size, alignment) ==
    [ptr   |-> AlignUp(chunk, alignment),
     chunk |-> AlignUp(chunk, alignment) + count * size]

\* sizeof of the element types
SizeOf ==
    [bool |-> 1, char |-> 1, int |-> 4, float |-> 4, uint32_t |-> 4,
     float2 |-> 8, uint2 |-> 8, uint64_t |-> 8, float4 |-> 16]

\* The element type of each sub-buffer (the struct declarations of
\* rasterizer_impl.h)
TypeOf ==
    [depths |-> "float", camera_planes |-> "float", ray_planes |-> "float2",
     ts |-> "float", normals |-> "float2", clamped |-> "bool",
     internal_radii |-> "int", means2D |-> "float2", view_points |-> "float",
     cov3D |-> "float", conic_opacity |-> "float4", rgb |-> "float",
     tiles_touched |-> "uint32_t", scanning_space |-> "char",
     point_offsets |-> "uint32_t", points2D |-> "float2",
     n_contrib |-> "uint32_t", ranges |-> "uint2", point_ranges |-> "uint2",
     accum_coord |-> "float", accum_depth |-> "float",
     normal_length |-> "float", point_list |-> "uint32_t",
     point_list_unsorted |-> "uint32_t", point_list_keys |-> "uint64_t",
     point_list_keys_unsorted |-> "uint64_t", list_sorting_space |-> "char"]

\* The scratch bytes the scan and the sort ask for, for n items: the answer
\* of the library's size query, which depends on n only
scan_size(n) == n + 1
sorting_size(n) == 2 * n + 1

F(name, count) == [name |-> name, count |-> count]

\* The obtain calls of a fromChunk, in order: the sub-buffers come one after
\* the other from chunk on
RECURSIVE CarveFrom(_, _, _, _)
CarveFrom(chunk, fields, k, at) ==
    IF k > Len(fields) THEN [at |-> at, chunk |-> chunk]
    ELSE CarveFrom(obtain(chunk, fields[k].count,
                          SizeOf[TypeOf[fields[k].name]], 128).chunk,
                   fields, k + 1,
                   Append(at, [name |-> fields[k].name,
                               ptr  |-> obtain(chunk, fields[k].count,
                                               SizeOf[TypeOf[fields[k].name]],
                                               128).ptr]))

Carve(chunk, fields) == CarveFrom(chunk, fields, 1, <<>>)

\* lines 190-210
GeometryState_fields(P) ==
    <<F("depths", P), F("camera_planes", P * 6), F("ray_planes", P), F("ts", P),
      F("normals", P), F("clamped", P * 3), F("internal_radii", P),
      F("means2D", P), F("view_points", P * 3), F("cov3D", P * 6),
      F("conic_opacity", P), F("rgb", P * 3), F("tiles_touched", P),
      F("scanning_space", scan_size(P)), F("point_offsets", P)>>

\* lines 224-235
ImageState_fields(N) ==
    <<F("n_contrib", N * 2), F("ranges", N), F("point_ranges", N),
      F("accum_coord", N * 3), F("accum_depth", N), F("normal_length", N)>>

\* lines 237-250
BinningState_fields(P) ==
    <<F("point_list", P), F("point_list_unsorted", P), F("point_list_keys", P),
      F("point_list_keys_unsorted", P),
      F("list_sorting_space", sorting_size(P))>>

\* Where the sub-buffers of the three views lie, carved from the blocks that
\* start at geom, binning and img
Views(geom, binning, img, P, R, N) ==
    [geom    |-> Carve(geom, GeometryState_fields(P)).at,
     binning |-> Carve(binning, BinningState_fields(R)).at,
     img     |-> Carve(img, ImageState_fields(N)).at]

\* Addresses of the blocks the callbacks hand out, two of them not a multiple
\* of the alignment
BlockAddresses == {0, 1024, 1025, 1088}

\* lines 297-312, 367-369: forward carves its three blocks for P, the total
\* read back and width * height
ForwardViews ==
    /\ pc = "idle"
    /\ call.fn # "forward"
    /\ call' = [fn  |-> "forward", arg |-> inp,
                res |-> Views(inp.geom_buffer, inp.binning_buffer,
                              inp.img_buffer, inp.P, inp.R,
                              inp.width * inp.height)]
    /\ UNCHANGED <<NUM_CHANNELS, inp, kernel, pc, pointVars, geomState,
                   binningState, imgState, num_rendered, log, outputs, ret, last>>

\* Variant of BackwardViews that carves the image block for P elements
BackwardViews_ImageForP ==
    /\ pc = "idle"
    /\ call.fn = "forward"
    /\ LET a == call.arg
       IN  call' = [fn  |-> "backward", arg |-> a,
                    res |-> Views(a.geom_buffer, a.binning_buffer, a.img_buffer,
                                  a.P, a.R, a.P),
                    fwd |-> call.res]
    /\ UNCHANGED <<NUM_CHANNELS, inp, kernel, pc, pointVars, geomState,
                   binningState, imgState, num_rendered, log, outputs, ret, last>>

\* lines 498-500: backward carves the blocks of a forward call again, for
\* its arguments P, R and width * height
BackwardViews ==
    /\ pc = "idle"
    /\ call.fn = "forward"
    /\ LET a == call.arg
       IN  call' = [fn  |-> "backward", arg |-> a,
                    res |-> Views(a.geom_buffer, a.binning_buffer, a.img_buffer,
                                  a.P, a.R, a.width * a.height),
                    fwd |-> call.res]
    /\ UNCHANGED <<NUM_CHANNELS, inp, kernel, pc, pointVars, geomState,
                   binningState, imgState, num_rendered, log, outputs, ret, last>>

\* The counts and blocks of a forward call and the backward call after it:
\* P primitives, R instances, width * height pixels, of a size at which the
\* sub-buffers are longer than their alignment
LayoutArgs ==
    [P : {16 * k - 1 : k \in 1..MaxCount}, R : {16 * k : k \in 0..MaxCount},
     width : {4 * k : k \in 1..MaxSide}, height : {4 * k - 1 : k \in 1..MaxSide},
     geom_buffer : BlockAddresses, binning_buffer : BlockAddresses,
     img_buffer : BlockAddresses]

InitLayout ==
    /\ NUM_CHANNELS = 3
    /\ inp \in LayoutArgs
    /\ Start

NextLayout == ForwardViews \/ BackwardViews

SpecLayout == InitLayout /\ [][NextLayout]_vars

\* ------------------------------------------------------------ block sizing
\* lines 212-222
PointState_fields(P) ==
    <<F("depths", P), F("points2D", P), F("tiles_touched", P),
      F("scanning_space", scan_size(P)), F("point_offsets", P)>>

\* required<T>(P) (rasterizer_impl.h): the end of T::fromChunk carved from
\* the null address, plus the alignment
required(fields) == Carve(0, fields).chunk + 128

\* A block of required(sized) bytes asked of callback name and carved for the
\* fields carved
Arena(name, sized, carved, block) ==
    /\ pc = "idle"
    /\ call.fn = "none"
    /\ call' = [fn  |-> name,
                arg |-> [fields |-> carved, block |-> block],
                res |-> [size |-> required(sized),
                         at   |-> Carve(block, carved).at]]
    /\ UNCHANGED <<NUM_CHANNELS, inp, kernel, pc, pointVars, geomState,
                   binningState, imgState, num_rendered, log, outputs, ret, last>>

\* lines 297-299, 653-655
GeometryArena ==
    Arena("geometryBuffer", GeometryState_fields(inp.P),
          GeometryState_fields(inp.P), inp.block)

\* Variant of ImageArena that asks for a block for width elements
ImageArena_SizedByWidth ==
    Arena("imageBuffer", ImageState_fields(inp.width),
          ImageState_fields(inp.width * inp.height), inp.block)

\* lines 310-312, 666-668
ImageArena ==
    Arena("imageBuffer", ImageState_fields(inp.width * inp.height),
          ImageState_fields(inp.width * inp.height), inp.block)

\* lines 367-369, 727-729, 794-796: R is the total read back
BinningArena ==
    \E R \in {16 * k : k \in 0..MaxCount} :
        Arena("binningBuffer", BinningState_fields(R), BinningState_fields(R),
              inp.block)

\* lines 766-768
PointArena ==
    Arena("pointBuffer", PointState_fields(inp.PN), PointState_fields(inp.PN),
          inp.block)

\* The counts of a call and the address the callbacks answer with
ArenaArgs ==
    [P : {0} \cup {16 * k - 1 : k \in 1..MaxCount},
     PN : {0} \cup {16 * k + 1 : k \in 1..MaxCount},
     width : {4 * k : k \in 1..MaxSide}, height : {4 * k - 1 : k \in 1..MaxSide},
     block : BlockAddresses]

InitArena ==
    /\ NUM_CHANNELS = 3
    /\ inp \in ArenaArgs
    /\ Start

NextArena == GeometryArena \/ ImageArena \/ BinningArena \/ PointArena

SpecArena == InitArena /\ [][NextArena]_vars

\* ----------------------------------------------------------------- claims
\* The positions of a call at which a stage has completed
AfterPreprocess ==
    pc \in {"fwd_scan", "fwd_readback", "fwd_binning", "fwd_duplicate",
            "fwd_sort", "fwd_memset", "fwd_ranges", "fwd_render"}
AfterScan ==
    pc \in {"fwd_readback", "fwd_binning", "fwd_duplicate", "fwd_sort",
            "fwd_memset", "fwd_ranges", "fwd_render"}
AfterKeyGen == pc \in {"fwd_sort", "fwd_memset", "fwd_ranges", "fwd_render"}
AfterSort == pc \in {"fwd_memset", "fwd_ranges", "fwd_render"}
AfterRangeFinder == pc = "fwd_render"
Returned == pc = "idle" /\ ret.st = "value" /\ ret.fn = "forward"

Tiles == 0..(NumTiles - 1)
Slots == 0..(num_rendered - 1)

\* Depth (the float, in halves) and tile of the instance at sorted slot s
DepthOf(s) == geomState.depths[binningState.point_list[s]]
TileOf(s) == binningState.point_list_keys[s].tile

UnsortedPair(s) ==
    <<binningState.point_list_keys_unsorted[s], binningState.point_list_unsorted[s]>>
SortedPair(s) ==
    <<binningState.point_list_keys[s], binningState.point_list[s]>>

\* Sum of f over the finite set S, by picking elements
RECURSIVE SumOver(_, _)
SumOver(S, f) ==
    IF S = {} THEN 0
    ELSE LET e == CHOOSE e \in S : TRUE IN f[e] + SumOver(S \ {e}, f)

\* C1: after the Range Finder pass, every tile's range [a,b) has
\* a <= b <= L, holds only entries of that tile, and its entries are in
\* ascending depth order.
C1_RangesWellFormed ==
    (AfterRangeFinder \/ Returned) =>
        \A t \in Tiles :
            LET a == imgState.ranges[t].x
                b == imgState.ranges[t].y
            IN  /\ a <= b
                /\ b <= num_rendered
                /\ \A i \in a..(b - 1) : TileOf(i) = t
                /\ \A i, j \in a..(b - 1) : i < j => DepthOf(i) <= DepthOf(j)

C1_Witness ==
    /\ AfterRangeFinder
    /\ \E t \in Tiles :
          /\ imgState.ranges[t].y - imgState.ranges[t].x >= 2
          /\ DepthOf(imgState.ranges[t].x) < DepthOf(imgState.ranges[t].x + 1)
    /\ \E t \in Tiles : imgState.ranges[t].x > 0

\* C2: after the sort, the sorted list is a permutation of the emitted
\* pairs, the pairs of one tile are contiguous, and of two pairs of one tile
\* the one with the smaller depth comes first.
C2_SortedByTileThenDepth ==
    (AfterSort \/ Returned) =>
        /\ \A s \in Slots :
              Cardinality({u \in Slots : UnsortedPair(u) = UnsortedPair(s)})
                = Cardinality({u \in Slots : SortedPair(u) = UnsortedPair(s)})
        /\ \A i, j, k \in Slots :
              (i < j /\ j < k /\ TileOf(i) = TileOf(k)) => TileOf(j) = TileOf(i)
        /\ \A i, j \in Slots :
              (TileOf(i) = TileOf(j) /\ DepthOf(i) < DepthOf(j)) => i < j

C2_Witness ==
    /\ pc = "fwd_memset"
    /\ \E i, j \in Slots :
          /\ i < j
          /\ binningState.point_list_keys_unsorted[i].tile
               = binningState.point_list_keys_unsorted[j].tile
          /\ geomState.depths[binningState.point_list_unsorted[i]]
               > geomState.depths[binningState.point_list_unsorted[j]]
    /\ \E i, j \in Slots :
          /\ i < j
          /\ binningState.point_list_keys_unsorted[i].tile
               > binningState.point_list_keys_unsorted[j].tile

\* C3: a primitive of radius <= 0 writes no pair in the key generator, and
\* its index is in no tile's range of the sorted list.
C3_CulledEmitsNothing ==
    \A i \in 0..(inp.P - 1) :
        ((AfterPreprocess \/ Returned) /\ geomState.internal_radii[i] <= 0) =>
            /\ pc = "fwd_duplicate" =>
                  DuplicateThread(i, geomState.means2D, geomState.depths,
                      geomState.point_offsets, geomState.internal_radii,
                      tile_grid, binningState) = binningState
            /\ (AfterKeyGen \/ Returned) =>
                  \A s \in Slots : binningState.point_list_unsorted[s] # i
            /\ (AfterRangeFinder \/ Returned) =>
                  \A t \in Tiles :
                      \A s \in imgState.ranges[t].x..(imgState.ranges[t].y - 1) :
                          binningState.point_list[s] # i

C3_Witness ==
    /\ Returned
    /\ num_rendered > 0
    /\ \E i \in 0..(inp.P - 1) :
          /\ geomState.internal_radii[i] <= 0
          /\ geomState.means2D[i].x > 0

\* C4: after forward, a tile that received no instance has range [0,0),
\* whatever the table held before, also when R = 0.
C4_EmptyTileZeroRange ==
    (AfterRangeFinder \/ Returned) =>
        \A t \in Tiles :
            (\A s \in Slots : binningState.point_list_keys_unsorted[s].tile # t)
                => imgState.ranges[t] = [x |-> 0, y |-> 0]

C4_Witness ==
    /\ Returned
    /\ num_rendered = 0
    /\ NumTiles = 4
    /\ imgState.point_ranges[3].x # 0

\* C5: the offsets are non-decreasing, the last one is the sum of all
\* counts and is what forward returns, and a primitive of count 0 leaves
\* every other primitive's offset what it is without it.
C5_PrefixSum ==
    LET touched == geomState.tiles_touched
        offsets == geomState.point_offsets
        PIdx    == 0..(inp.P - 1)
    IN  /\ (AfterScan \/ Returned) =>
              /\ \A i, j \in PIdx : i <= j => offsets[i] <= offsets[j]
              /\ offsets[inp.P - 1] = SumOver(PIdx, touched)
              /\ \A k \in PIdx : touched[k] = 0 =>
                    \A j \in PIdx \ {k} :
                        offsets[j] = SumOver({i \in PIdx : i <= j /\ i # k}, touched)
        /\ Returned => ret.v = SumOver(PIdx, touched)

C5_Witness ==
    /\ Returned
    /\ inp.P >= 2
    /\ geomState.tiles_touched[0] = 0
    /\ geomState.tiles_touched[1] >= 2
    /\ ret.v = geomState.tiles_touched[1]

\* C6: a backward call issues no key generation, sort, range finding or
\* resize callback, and leaves the buffers as the forward call left them.
C6_BackwardKeepsBinning ==
    (pc \in {"bwd_render", "bwd_preprocess"} \/ (pc = "idle" /\ ret.st = "void")) =>
        /\ imgState.ranges = last.imgState.ranges
        /\ binningState.point_list = last.binningState.point_list
        /\ binningState.point_list_keys = last.binningState.point_list_keys
        /\ \A n \in 1..Len(log) :
              log[n] \notin {"geometryBuffer", "binningBuffer", "imageBuffer",
                             "duplicateWithKeys", "SortPairs", "cudaMemset",
                             "identifyTileRanges"}

C6_Witness ==
    /\ pc = "idle"
    /\ ret.st = "void"
    /\ num_rendered >= 2
    /\ "dL_dmean3D" \in outputs

\* The positions of an integrate call between the Gaussian Range Finder pass
\* and the merge: the point side
PointSide ==
    pc \in {"int_point_layout", "int_point_preprocess", "int_point_scan",
            "int_point_readback", "int_point_binning", "int_create",
            "int_point_sort", "int_point_memset", "int_point_ranges"}
\* ... of which the key generation, sort, zeroing and range finding
PointBinning ==
    pc \in {"int_create", "int_point_sort", "int_point_memset", "int_point_ranges"}
IntegrateReturned == pc = "idle" /\ ret.st = "value" /\ ret.fn = "integrate"

PointSlots == 0..(num_integrated - 1)

\* C7: the point-side stages of integrate write only the point binning state
\* and point_ranges; the Gaussian ranges and sorted list stay as the Gaussian
\* Range Finder pass left them, and each range table indexes its own list.
C7_PointSideFrame ==
    /\ [][/\ PointSide =>
                /\ imgState'.ranges = imgState.ranges
                /\ binningState' = binningState
          /\ PointBinning =>
                UNCHANGED <<geomState, pointState, num_rendered, num_integrated,
                            outputs>>]_vars
    /\ [](pc = "int_integrate" =>
            \A t \in Tiles :
                /\ imgState.ranges[t].y <= num_rendered
                /\ \A s \in imgState.ranges[t].x..(imgState.ranges[t].y - 1) :
                      /\ binningState.point_list_keys[s].tile = t
                      /\ binningState.point_list[s] \in 0..(inp.P - 1)
                /\ imgState.point_ranges[t].y <= num_integrated
                /\ \A s \in imgState.point_ranges[t].x..(imgState.point_ranges[t].y - 1) :
                      /\ point_binningState.point_list_keys[s].tile = t
                      /\ point_binningState.point_list[s] \in 0..(inp.PN - 1))

C7_Witness ==
    /\ pc = "int_integrate"
    /\ num_rendered >= 2
    /\ num_integrated >= 2
    /\ num_integrated # num_rendered
    /\ \E t \in Tiles :
          /\ imgState.ranges[t].y > imgState.ranges[t].x
          /\ imgState.point_ranges[t].y > imgState.point_ranges[t].x
          /\ imgState.point_ranges[t] # imgState.ranges[t]

\* C8: for the same projection outputs and image size, the Gaussian side of
\* integrate yields the sorted list and ranges that forward yields, and
\* integrate returns the Gaussian instance total.
C8_IntegrateMatchesForward ==
    (last.st = "done" /\ (PointSide \/ pc = "int_integrate" \/ IntegrateReturned)) =>
        /\ binningState.point_list = last.binningState.point_list
        /\ binningState.point_list_keys = last.binningState.point_list_keys
        /\ \A t \in Tiles : imgState.ranges[t] = last.imgState.ranges[t]
        /\ num_rendered = last.num_rendered
        /\ IntegrateReturned => ret.v = last.num_rendered

C8_Witness ==
    /\ IntegrateReturned
    /\ last.st = "done"
    /\ num_rendered >= 2
    /\ num_integrated >= 1
    /\ num_integrated # num_rendered
    /\ \E t \in Tiles : imgState.ranges[t].x > 0

\* C9 as stated: a second forward call with the same inputs leaves all three
\* buffers byte for byte as the first did, whatever they held before.
C9_Original ==
    (pc = "fwd_render" /\ last.st = "done") =>
        /\ geomState = last.geomState
        /\ binningState = last.binningState
        /\ imgState = last.imgState
        /\ num_rendered = last.num_rendered

\* C9: a second forward call with the same inputs yields the same count and
\* the same contents in what forward writes: tile counts, offsets and radii,
\* the per-primitive outputs of visible primitives, the four binning lists
\* and the ranges of the tiles.
C9_ForwardRepeatable ==
    (pc = "fwd_render" /\ last.st = "done") =>
        /\ geomState.tiles_touched = last.geomState.tiles_touched
        /\ geomState.point_offsets = last.geomState.point_offsets
        /\ geomState.internal_radii = last.geomState.internal_radii
        /\ \A i \in 0..(inp.P - 1) : geomState.internal_radii[i] > 0 =>
              /\ geomState.depths[i] = last.geomState.depths[i]
              /\ geomState.means2D[i] = last.geomState.means2D[i]
        /\ binningState = last.binningState
        /\ \A t \in Tiles : imgState.ranges[t] = last.imgState.ranges[t]
        /\ num_rendered = last.num_rendered

C9_Witness ==
    /\ pc = "fwd_render"
    /\ last.st = "done"
    /\ num_rendered >= 2
    /\ imgState.point_ranges # last.imgState.point_ranges
    /\ \E t \in Tiles : imgState.ranges[t] = [x |-> 0, y |-> 0]

BadConfig == NUM_CHANNELS # 3 /\ inp.colors_precomp = "nullptr"

\* C10 as stated: with channels other than 3 and no precomputed colours, the
\* call is rejected before any device work (the buffer requests included)
\* and no output is written.
C10_Original ==
    (BadConfig /\ pc = "idle" /\ ret.st = "threw") =>
        /\ log = <<>>
        /\ outputs = {}

\* C10: with channels other than 3 and no precomputed colours, forward and
\* integrate throw before any kernel or device operation is issued and
\* before any output is written, after the geometry and image buffers have
\* been requested.
C10_RejectedBeforeKernels ==
    BadConfig =>
        /\ pc \in {"idle", "fwd_check", "int_check"}
        /\ (pc = "idle" /\ ret.fn # "none") =>
              /\ ret.st = "threw"
              /\ log = <<"geometryBuffer", "imageBuffer">>
        /\ \A n \in 1..Len(log) : log[n] \in {"geometryBuffer", "imageBuffer"}
        /\ outputs = {}

C10_Witness ==
    /\ BadConfig
    /\ pc = "idle"
    /\ ret.st = "threw"
    /\ ret.fn = "integrate"
    /\ log = <<"geometryBuffer", "imageBuffer">>

IsPrefix(s, t) == Len(s) <= Len(t) /\ \A n \in 1..Len(s) : s[n] = t[n]

ForwardRunning ==
    pc \in {"fwd_check", "fwd_preprocess", "fwd_scan", "fwd_readback",
            "fwd_binning", "fwd_duplicate", "fwd_sort", "fwd_memset",
            "fwd_ranges", "fwd_render"}

\* What forward issues: Layout, Project/Shade, PrefixSum and read-back,
\* binning Layout, Duplicate, Sort, RangeFind (zeroing, then the kernel if it
\* is launched), Blend
ForwardStages(rangeFinder) ==
    <<"geometryBuffer", "imageBuffer", "preprocess", "InclusiveSum",
      "cudaMemcpy", "binningBuffer", "duplicateWithKeys", "SortPairs",
      "cudaMemset">>
      \o (IF rangeFinder THEN <<"identifyTileRanges">> ELSE <<>>)
      \o <<"render">>

\* C12 as stated: every forward call that returns has gone through all the
\* stages, the Range Finder included, also when the instance count is 0.
C12_Original == Returned => log = ForwardStages(TRUE)

\* C12: a forward call goes through Layout, Project/Shade, PrefixSum,
\* Duplicate, Sort, RangeFind and Blend in this order, one after the other,
\* for every input; of RangeFind only the zeroing of the table runs when the
\* instance count is 0, the Range Finder kernel is launched when it is not.
C12_StagesInOrder ==
    /\ ForwardRunning => IsPrefix(log, ForwardStages(num_rendered # 0))
    /\ Returned => log = ForwardStages(num_rendered > 0)

C12_Witness ==
    /\ Returned
    /\ ret.v = 0
    /\ Len(log) = 10
    /\ log[9] = "cudaMemset"
    /\ log[10] = "render"

\* Tile t lies in the tile rectangle of primitive i, which has a radius
InRect(i, t) ==
    LET rect == getRect(geomState.means2D[i], geomState.internal_radii[i], tile_grid)
        tx   == t % tile_grid.x
        ty   == t \div tile_grid.x
    IN  /\ geomState.internal_radii[i] > 0
        /\ rect.min.x <= tx /\ tx < rect.max.x
        /\ rect.min.y <= ty /\ ty < rect.max.y

\* C13: after the Range Finder pass, the sorted list holds in a tile's range
\* exactly the primitives of positive radius whose rectangle contains the
\* tile, each once, and no instance of the tile lies outside its range.
C13_RangeHoldsOverlappers ==
    (AfterRangeFinder \/ Returned) =>
        \A t \in Tiles :
            LET R == imgState.ranges[t].x..(imgState.ranges[t].y - 1)
            IN  /\ R \subseteq Slots
                /\ \A s \in R : binningState.point_list[s] \in 0..(inp.P - 1)
                /\ \A i \in 0..(inp.P - 1) :
                      Cardinality({s \in R : binningState.point_list[s] = i})
                        = IF InRect(i, t) THEN 1 ELSE 0
                /\ \A s \in Slots : TileOf(s) = t => s \in R

C13_Witness ==
    /\ AfterRangeFinder
    /\ NumTiles = 4
    /\ \E i, j \in 0..(inp.P - 1) :
          /\ Cardinality({t \in Tiles : InRect(i, t)}) = 4
          /\ Cardinality({t \in Tiles : InRect(j, t)}) = 1
          /\ InRect(j, 1)
    /\ imgState.ranges[1].y - imgState.ranges[1].x = 2
    /\ imgState.ranges[2].y - imgState.ranges[2].x = 1

\* The offset below primitive i's first pair
exclusive_offset(i) == IF i = 0 THEN 0 ELSE geomState.point_offsets[i - 1]

\* C14: whatever the order in which the threads of duplicateWithKeys run,
\* primitive i writes its j-th pair at exclusive_offset(i) + j, no two writes
\* go to the same slot, and every written slot is in [0, R).
C14_DisjointWrites ==
    (pc = "fwd_duplicate_threads" \/ AfterKeyGen) =>
        /\ \A w \in kernel.writes :
              /\ w.slot = exclusive_offset(w.idx) + w.j
              /\ w.slot \in Slots
              /\ binningState.point_list_unsorted[w.slot] = w.idx
        /\ \A w1, w2 \in kernel.writes : w1.slot = w2.slot => w1 = w2

\* Two threads with several pairs each, the second thread ahead of the first
C14_Witness ==
    /\ pc = "fwd_duplicate_threads"
    /\ \E w \in kernel.writes : w.idx = 1 /\ w.j = 1 /\ w.slot >= 2
    /\ kernel.next[0] = 1
    /\ geomState.tiles_touched[0] = 4

\* The slots a finished kernel wrote are exactly 0..n-1, each once
WrittenOnce(n) ==
    /\ \A s \in 0..(n - 1) : Cardinality({w \in kernel.writes : w.slot = s}) = 1
    /\ \A w \in kernel.writes : w.slot \in 0..(n - 1)
    /\ Cardinality(kernel.writes) = n

\* C15: when a key generator has finished, each slot of [0, R) of the
\* unsorted Gaussian lists, and each slot of [0, num_integrated) of the
\* unsorted point lists, has been written exactly once, and no other slot.
C15_ExactlySized ==
    /\ (pc \in {"int_sort", "int_memset", "int_ranges"}
          /\ kernel.name = "duplicateWithKeys") => WrittenOnce(num_rendered)
    /\ (pc \in {"int_point_sort", "int_point_memset", "int_point_ranges"}
          /\ kernel.name = "createWithKeys") => WrittenOnce(num_integrated)

C15_Witness ==
    /\ pc = "int_point_sort"
    /\ kernel.name = "createWithKeys"
    /\ inp.PN = 2
    /\ num_integrated = 1
    /\ pointState.tiles_touched[0] = 0
    /\ num_rendered >= 4
    /\ geomState.tiles_touched[0] = 0

\* The tile that contains point p, each coordinate brought into the grid
ContainingTile(p) ==
    LET tx == Min(tile_grid.x - 1, Max(0, p.x \div BLOCK_X))
        ty == Min(tile_grid.y - 1, Max(0, p.y \div BLOCK_Y))
    IN  ty * tile_grid.x + tx

\* Point i has written one pair, at its offset slot, for its clamped
\* containing tile, with its depth bits and its index
OnePairOf(i) ==
    LET off == IF i = 0 THEN 0 ELSE pointState.point_offsets[i - 1]
    IN  /\ {w \in kernel.writes : w.idx = i} = {[slot |-> off, idx |-> i, j |-> 0]}
        /\ point_binningState.point_list_keys_unsorted[off]
             = [tile  |-> ContainingTile(pointState.points2D[i]),
                depth |-> DepthBits(pointState.depths[i])]
        /\ point_binningState.point_list_unsorted[off] = i

CreateDone == pc = "int_point_sort" /\ kernel.name = "createWithKeys"

\* C16 as stated: every sample point has emitted exactly one pair when
\* createWithKeys has finished.
C16_Original ==
    CreateDone => \A i \in 0..(inp.PN - 1) : OnePairOf(i)

\* C16: when createWithKeys has finished, every sample point with a tile
\* count above 0 has emitted exactly one pair, at its offset slot, for its
\* clamped containing tile, with its depth bits and its index; a point with
\* tile count 0 has emitted none.
C16_OnePairPerVisiblePoint ==
    CreateDone =>
        \A i \in 0..(inp.PN - 1) :
            IF pointState.tiles_touched[i] > 0
            THEN OnePairOf(i)
            ELSE \A w \in kernel.writes : w.idx # i

C16_Witness ==
    /\ CreateDone
    /\ inp.PN = 2
    /\ pointState.tiles_touched[0] = 0
    /\ pointState.points2D[1].x < 0
    /\ kernel.writes = {[slot |-> 0, idx |-> 1, j |-> 0]}
    /\ point_binningState.point_list_keys_unsorted[0].tile = 2

\* The number of bits needed to write v in binary: the least b with v < 2^b
RECURSIVE BitsFor(_)
BitsFor(v) == IF v = 0 THEN 0 ELSE 1 + BitsFor(v \div 2)

IsPowerOfTwo(n) == \E k \in 0..30 : n = 2 ^ k

\* C17 as stated: the sort is handed 32 + the bits needed for tile_count - 1.
C17_Original ==
    call.fn = "end_bit" => call.res = 32 + BitsFor(call.arg - 1)

\* C17: the sort is handed 32 + the bits needed to represent tile_count
\* itself: that is 32 + the bits needed for tile_count - 1 when tile_count is
\* not a power of two, and one bit more when it is.
C17_SortBitCount ==
    call.fn = "end_bit" =>
        /\ call.res = 32 + BitsFor(call.arg)
        /\ call.res = 32 + BitsFor(call.arg - 1)
                        + (IF IsPowerOfTwo(call.arg) THEN 1 ELSE 0)

C17_Witness ==
    /\ call.fn = "end_bit"
    /\ call.arg = 4
    /\ call.res = 35

\* Tile indices below n: all of them for a small n, else the ends and the middle
SomeTiles(n) == IF n <= MaxTileCount THEN 0..(n - 1) ELSE {0, n \div 2, n - 1}

\* Four pairs, out of order in tile and in depth, with tiles below n
SomePairs(n) ==
    <<[key |-> [tile |-> n - 1, depth |-> DepthBits(2)], val |-> 0],
      [key |-> [tile |-> 0, depth |-> DepthBits(1)], val |-> 1],
      [key |-> [tile |-> n - 1, depth |-> DepthBits(1)], val |-> 2],
      [key |-> [tile |-> n \div 2, depth |-> DepthBits(1)], val |-> 3],
      [key |-> [tile |-> n - 1, depth |-> DepthBits(1)], val |-> 4]>>

\* Sequence s holds the pairs of sequence u in ascending order of the whole
\* key, pairs of equal key in the order they have in u
SortedOnFullKey(s, u) ==
    /\ Len(s) = Len(u)
    /\ \A e \in 1..Len(u) : \E f \in 1..Len(s) : s[f] = u[e]
    /\ \A e, f \in 1..Len(s) :
          e < f => KeyLeq(<<s[e].key.tile, s[e].key.depth>>,
                          <<s[f].key.tile, s[f].key.depth>>)
    /\ \A e, f \in 1..Len(s) :
          (e < f /\ s[e].key = s[f].key) =>
              \E g, h \in 1..Len(u) : g < h /\ u[g] = s[e] /\ u[h] = s[f]

\* C18: getHigherMsb(n) returns b with n < 2^b; a tile index below n is
\* unchanged by keeping its low b bits, and a sort on the low 32 + b bits of
\* the keys orders pairs as a sort on the whole key does.
C18_TileBitsSuffice ==
    call.fn = "end_bit" =>
        LET n == call.arg
            b == call.res - 32
            u == SomePairs(n)
            U == Len(u)
        IN  /\ b \in 1..32
            /\ n \div (2 ^ (b - 1)) <= 1
            /\ \A t \in SomeTiles(n) :
                  SortBits([tile |-> t, depth |-> DepthBits(1)], 32 + b)
                     = <<t, DepthBits(1)>>
            /\ SortedOnFullKey(
                  SortedPrefix([e \in 0..(U - 1) |-> u[e + 1].key],
                               [e \in 0..(U - 1) |-> u[e + 1].val], U, 32 + b), u)

C18_Witness ==
    /\ call.fn = "end_bit"
    /\ call.arg = 2 ^ 30 + 1
    /\ call.res = 32 + 31

\* Where in the record of the running call an entry occurs
Positions(name) == {n \in 1..Len(log) : log[n] = name}

\* The resize callbacks an orchestrator is given
Callbacks(fn) ==
    IF fn = "integrate"
    THEN {"geometryBuffer", "imageBuffer", "binningBuffer", "pointBuffer",
          "point_binningBuffer"}
    ELSE {"geometryBuffer", "imageBuffer", "binningBuffer"}

CallEnded == pc = "idle" /\ ret.fn \in {"forward", "integrate"}

\* A binning callback comes right after its side's prefix sum and read-back
\* and is given the size for the total read back; key generation and sort of
\* a side come after that side's binning callback.
SizedAfterReadback ==
    /\ \A k \in Positions("binningBuffer") :
          k >= 3 /\ log[k - 1] = "cudaMemcpy" /\ log[k - 2] = "InclusiveSum"
    /\ \A k \in Positions("point_binningBuffer") :
          /\ k >= 4 /\ log[k - 1] = "cudaMemcpy" /\ log[k - 2] = "InclusiveSum"
          /\ log[k - 3] = "preprocess_points"
    /\ pc \in {"fwd_duplicate", "int_duplicate"} =>
          /\ num_rendered = geomState.point_offsets[inp.P - 1]
          /\ DOMAIN binningState.point_list_keys_unsorted = 0..(num_rendered - 1)
          /\ DOMAIN binningState.point_list = 0..(num_rendered - 1)
    /\ pc = "int_create" =>
          /\ num_integrated = pointState.point_offsets[inp.PN - 1]
          /\ DOMAIN point_binningState.point_list_keys_unsorted
                = 0..(num_integrated - 1)
          /\ DOMAIN point_binningState.point_list = 0..(num_integrated - 1)
    /\ \A k \in Positions("duplicateWithKeys") : log[k - 1] = "binningBuffer"
    /\ \A k \in Positions("createWithKeys") : log[k - 1] = "point_binningBuffer"
    /\ \A k \in Positions("SortPairs") :
          log[k - 1] \in {"duplicateWithKeys", "createWithKeys"}

\* C19 as stated: every call invokes each of its resize callbacks exactly
\* once, the binning callbacks after their side's read-back.
C19_Original ==
    /\ CallEnded =>
          \A cb \in Callbacks(ret.fn) : Cardinality(Positions(cb)) = 1
    /\ SizedAfterReadback

\* C19: a call that returns its count has invoked each of its resize
\* callbacks exactly once; a call rejected for its configuration has invoked
\* the geometry and the image callback once and no other; no callback is ever
\* invoked twice in a call; the binning callbacks come after their side's
\* prefix sum and read-back, sized for the total read back, and before that
\* side's key generation and sort.
C19_CallbacksOnceInOrder ==
    /\ \A cb \in Callbacks("integrate") : Cardinality(Positions(cb)) <= 1
    /\ (CallEnded /\ ret.st = "value") =>
          \A cb \in Callbacks("integrate") :
              Cardinality(Positions(cb)) = IF cb \in Callbacks(ret.fn) THEN 1 ELSE 0
    /\ (CallEnded /\ ret.st = "threw") =>
          \A cb \in Callbacks("integrate") :
              Cardinality(Positions(cb))
                 = IF cb \in {"geometryBuffer", "imageBuffer"} THEN 1 ELSE 0
    /\ SizedAfterReadback

C19_Witness ==
    /\ IntegrateReturned
    /\ num_integrated = 1
    /\ inp.PN = 2
    /\ num_rendered >= 2
    /\ Positions("point_binningBuffer") = {15}
    /\ Positions("binningBuffer") = {6}

\* The address of sub-buffer name in a view
PtrOf(view, name) == (CHOOSE e \in {view[k] : k \in 1..Len(view)} : e.name = name).ptr

\* The offsets of the sub-buffers of a view from the start of its block
OffsetsOf(view, block) ==
    [k \in 1..Len(view) |-> [name |-> view[k].name, ptr |-> view[k].ptr - block]]

BytesOf(f) == f.count * SizeOf[TypeOf[f.name]]

\* C21: for every arena kind and count, the sub-buffers carved from the block
\* the callback returned come in the declared order at ascending addresses,
\* each starts at a multiple of 128, no two overlap, and all lie inside the
\* bytes asked of the callback.
C21_CarvedInsideRequest ==
    call.fn \in {"geometryBuffer", "imageBuffer", "binningBuffer", "pointBuffer"} =>
        LET f  == call.arg.fields
            at == call.res.at
        IN  /\ Len(at) = Len(f)
            /\ \A k \in 1..Len(f) :
                  /\ at[k].name = f[k].name
                  /\ at[k].ptr % 128 = 0
                  /\ at[k].ptr >= call.arg.block
                  /\ at[k].ptr + BytesOf(f[k]) <= call.arg.block + call.res.size
            /\ \A j, k \in 1..Len(f) :
                  j < k => at[j].ptr + BytesOf(f[j]) <= at[k].ptr

C21_Witness ==
    /\ call.fn = "imageBuffer"
    /\ call.arg.block = 1088
    /\ call.arg.fields[1].count = 48
    /\ call.res.at[2].ptr = 1152 + 256
    /\ call.res.size = 256 + 256 + 256 + 384 + 128 + 96 + 128

\* The range finder's threads are running, or have all returned
RangeFinderDone == pc = "fwd_render" /\ kernel.name = "identifyTileRanges"

\* C22: in the range finder over the sorted key list, each field ranges[t].x
\* and ranges[t].y is written by at most one thread and at most once, and
\* when all threads have returned the table is the one the threads produce
\* when run one after the other, whatever order they ran in.
C22_RangeWritesDisjoint ==
    (pc = "fwd_ranges_threads" \/ RangeFinderDone) =>
        /\ \A w1, w2 \in kernel.writes : w1.slot = w2.slot => w1 = w2
        /\ \A t \in 0..(NumTiles - 1) : \A f \in {"x", "y"} :
              Cardinality({w.idx : w \in {v \in kernel.writes : v.slot = <<t, f>>}}) <= 1
        /\ RangeFinderDone =>
              imgState.ranges =
                  identifyTileRanges(num_rendered, binningState.point_list_keys,
                                     ZeroRanges(imgState.ranges, NumTiles))

\* A later thread has written before thread 0 has, and the two ends of one
\* tile's range were written by different threads
C22_Witness ==
    /\ pc = "fwd_ranges_threads"
    /\ num_rendered >= 5
    /\ kernel.next[0] = 0
    /\ \E w1, w2 \in kernel.writes :
          /\ w1.slot[1] = w2.slot[1]
          /\ w1.idx # w2.idx

\* A stage of the call under way has completed
HasRun(name) == \E k \in 1..Len(log) : log[k] = name

\* The range table entries the range finder writes for the first L keys
RangeTargets(L, keys) ==
    UNION { {RangeWrites(idx, L, keys)[k].t :
                k \in 1..Len(RangeWrites(idx, L, keys))} : idx \in 0..(L - 1) }

\* C23: every key of either key generator has a tile in [0, tile count), the
\* tile count is at most the width * height entries of each range table, and
\* so the zeroed entries and the entries the range finder writes, of ranges
\* and of point_ranges, are entries of the table.
C23_TilesInsideTables ==
    /\ NumTiles <= NumPixels
    /\ HasRun("imageBuffer") =>
          /\ DOMAIN imgState.ranges = 0..(NumPixels - 1)
          /\ DOMAIN imgState.point_ranges = 0..(NumPixels - 1)
          /\ Tiles \subseteq DOMAIN imgState.ranges
    /\ HasRun("duplicateWithKeys") =>
          \A s \in Slots : binningState.point_list_keys_unsorted[s].tile \in Tiles
    /\ HasRun("createWithKeys") =>
          \A s \in PointSlots :
              point_binningState.point_list_keys_unsorted[s].tile \in Tiles
    /\ pc \in {"fwd_memset", "fwd_ranges", "fwd_render", "int_memset", "int_ranges"} =>
          RangeTargets(num_rendered, binningState.point_list_keys)
              \subseteq (Tiles \cap DOMAIN imgState.ranges)
    /\ pc \in {"int_point_memset", "int_point_ranges", "int_integrate"} =>
          RangeTargets(num_integrated, point_binningState.point_list_keys)
              \subseteq (Tiles \cap DOMAIN imgState.point_ranges)

\* A point beyond the bottom right corner keyed to the last tile, and an
\* image of one pixel whose only tile holds a primitive and a point
C23_Witness ==
    /\ pc = "int_integrate"
    /\ NumTiles = 1
    /\ NumPixels = 1
    /\ num_rendered >= 1
    /\ num_integrated = 1
    /\ imgState.point_ranges[0] = [x |-> 0, y |-> 1]

\* The indices at which the threads idx < n of a key generator read the
\* offsets: offsets[idx - 1] unless idx = 0 (lines 88, 132)
KeyGenReads(n) == {idx - 1 : idx \in 1..(n - 1)}

\* C24: every index at which forward and integrate read a point_offsets
\* array, in the key generators and in the read-back of the total, is an
\* index of the array, for every P >= 0 and PN >= 0; with P = 0 (PN = 0) the
\* total read back is 0.
C24_Original ==
    /\ pc \in {"fwd_readback", "int_readback"} =>
          ReadbackIndex(inp.P) \in DOMAIN geomState.point_offsets
    /\ pc = "int_point_readback" =>
          ReadbackIndex(inp.PN) \in DOMAIN pointState.point_offsets
    /\ pc \in {"fwd_duplicate", "int_duplicate"} =>
          KeyGenReads(inp.P) \subseteq DOMAIN geomState.point_offsets
    /\ pc = "int_create" =>
          KeyGenReads(inp.PN) \subseteq DOMAIN pointState.point_offsets
    /\ (pc \in {"fwd_binning", "int_binning"} /\ inp.P = 0) => num_rendered = 0
    /\ (pc = "int_point_binning" /\ inp.PN = 0) => num_integrated = 0

====
